---- MODULE Spec2Model ----
(***************************************************************************)
(* Model of the batch job queue of backend/src/services/infrastructure/    *)
(* BatchMonitoringService.ts: SimplePriorityQueue, SimpleRateLimiter and   *)
(* BatchQueueManager.                                                      *)
(*                                                                         *)
(* The JavaScript event loop runs every callback to completion, so one     *)
(* action is one callback from its start (or from the await it resumes     *)
(* from) to its next await.  Time is kept in milliseconds as ages (time    *)
(* since an event, saturating at the largest value any comparison needs)   *)
(* and as the remaining time of pending setTimeout timers; a timer may     *)
(* fire late but never early.                                              *)
(***************************************************************************)
EXTENDS Integers, Sequences, FiniteSets, TLC

VARIABLES
    isInitialized,  \* BatchQueueManager.isInitialized
    queues,         \* BatchQueueManager.queues: name -> items of the queue (job ids)
    processing,     \* BatchQueueManager.processing: name -> BOOLEAN
    rateLimiters,   \* BatchQueueManager.rateLimiters: name -> age of lastRequest
    jobs,           \* the BatchJob objects constructed so far: id -> fields
    added,          \* the jobs a successful addJob has taken
    drains,         \* name -> the processQueue runs in flight on that queue
    retryTimers,    \* the pending retry setTimeout timers of executeJob
    sinceStart,     \* name -> age of the latest execution start of the queue
    startGap,       \* name -> sinceStart at the latest execution start
    sinceFail,      \* job id -> age of the job's latest failure
    lastCall,       \* the latest addJob call and its outcome
    limiter,        \* a SimpleRateLimiter used on its own: age of lastRequest
    callers,        \* caller -> its pending waitForNext call on limiter
    sinceReturn,    \* age of the latest return of a waitForNext call on limiter
    returnGap,      \* sinceReturn at the latest return
    items,          \* a SimplePriorityQueue used on its own: its items
    arrivals,       \* the number of enqueue calls on it so far
    data,           \* MetricCollector.data: the MetricData of one collector
    recorded,       \* every outcome recorded on the collector so far, in order
    rateResult,     \* the value the latest getSuccessRate call returned
    recentAlerts,   \* AlertManager.recentAlerts: key -> age of the Date stored
    sinceDispatch,  \* (type, severity) -> age of the latest alert logged for it
    dispatchGap,    \* (type, severity) -> sinceDispatch when that alert was logged
    lastSend,       \* the latest sendAlert call and whether it logged the alert
    health,         \* the SystemHealth the latest performHealthCheck call returned
    probe,          \* what the process and the clock showed that call
    result,         \* the ValidationResult of the validateBatchProcessing call
    phase,          \* where that call stands
    merged,         \* result.validationScore as the last mergeResults left it
    faults,         \* the calls that failed during the validateBatchProcessing call
    circuit,        \* RateLimitingService: the circuit state of one API key
    failureCount,   \* its consecutive-failure count
    openAge,        \* time since the circuit opened, in ticks, up to the cooldown
    trial,          \* the caller whose trial call the half-open circuit admitted, or 0
    calls,          \* caller -> its executeWithRateLimit call on the key
    store,          \* TransactionalDatabaseService: the committed rows, key -> value
    tx,             \* the executeBatchTransaction call: its position, operations, working copy, elapsed time and result
    queueStatus,    \* getQueueStatus: the argument and the value of its latest call
    monitor,        \* caller -> its monitorBatchExecution call on the batch id and how the latest one ended
    horizon,        \* the newest record that is ten minutes old or older, 0 when none is
    tests,          \* scenario -> how far its operation and its executeScenario call have come
    clock,          \* time since the scenarios were started, up to the timeout
    alertBatch,     \* the batch id of the alert a call of sendAlert on its own was last given
    dispatchBatch   \* the batch id of the alert such a call last dispatched

qvars == <<isInitialized, queues, processing, rateLimiters, jobs, added, drains,
           retryTimers, sinceStart, startGap, sinceFail, lastCall>>
lvars == <<limiter, callers, sinceReturn, returnGap>>
pvars == <<items, arrivals>>
mvars == <<data, recorded, rateResult>>
avars == <<recentAlerts, sinceDispatch, dispatchGap, lastSend>>
hvars == <<health, probe>>
vvars == <<result, phase, merged>>
fvars == <<faults>>
bvars == <<circuit, failureCount, openAge, trial, calls>>
tvars == <<store, tx>>
svars == <<queueStatus>>
ovars == <<monitor, horizon>>
cvars == <<tests, clock>>
xvars == <<alertBatch, dispatchBatch>>
vars == <<qvars, lvars, pvars, mvars, avars, hvars, vvars, fvars, bvars, tvars, svars, ovars, cvars, xvars>>

(* what the operations of one component leave alone *)
notQueue == <<lvars, pvars, mvars, avars, hvars, vvars, fvars, bvars, tvars, svars, ovars, cvars, xvars>>
notLimiter == <<qvars, pvars, mvars, avars, hvars, vvars, fvars, bvars, tvars, svars, ovars, cvars, xvars>>
notItems == <<qvars, lvars, mvars, avars, hvars, vvars, fvars, bvars, tvars, svars, ovars, cvars, xvars>>
notMetrics == <<qvars, lvars, pvars, avars, hvars, vvars, fvars, bvars, tvars, svars, ovars, cvars, xvars>>
notAlerts == <<qvars, lvars, pvars, mvars, hvars, vvars, fvars, bvars, tvars, svars, ovars, cvars>>
notHealth == <<qvars, lvars, pvars, mvars, avars, vvars, fvars, bvars, tvars, svars, ovars, cvars, xvars>>
notValidation == <<qvars, lvars, pvars, mvars, avars, hvars, fvars, bvars, tvars, svars, ovars, cvars, xvars>>
notHarness == <<qvars, lvars, pvars, mvars, avars, bvars, tvars, svars, ovars, cvars, xvars>>
notBreaker == <<qvars, lvars, pvars, mvars, avars, hvars, vvars, fvars, tvars, svars, ovars, cvars, xvars>>
notTransaction == <<qvars, lvars, pvars, mvars, avars, hvars, vvars, fvars, bvars, svars, ovars, cvars, xvars>>
notStatus == <<lvars, pvars, mvars, avars, hvars, vvars, fvars, bvars, tvars, ovars, cvars, xvars>>
notMonitor == <<qvars, lvars, pvars, hvars, vvars, fvars, bvars, tvars, svars, cvars, xvars>>
notScenarios == <<qvars, lvars, pvars, mvars, avars, hvars, fvars, bvars, tvars, svars, ovars, xvars>>

----------------------------------------------------------------------------
(* Bounds of the model *)

MaxJobs == 2
(* jobs of the one queue in which a drain is followed job by job *)
MaxDrainJobs == 3
MaxAttemptsBound == 2
MaxCallers == 3
MaxEnqueues == 4
Quantum == 25      \* the step, in ms, in which time passes for the limiter on its own
MaxRecords == 7    \* record calls on the collector, of any outcome
MaxRingRecords == 102   \* record calls on the collector when it is driven past its cap
MaxRingFailures == 1    \* the failures among them
AlertQuantum == 100000  \* the step, in ms, in which time passes for the alert manager
MaxHeap == 20      \* the largest heapTotal the process reports
MaxApis == 1       \* the APIs RateLimitingService.getStats reports on
MaxBreakerCallers == 3  \* the callers of executeWithRateLimit on one API key
CooldownTicks == 2      \* the cooldown of the circuit breaker, in ticks
MaxFailureCount == 4    \* no operation fails once the failure count is this high
MaxMonitorCallers == 2  \* the monitored executions of the batch id in flight together
MaxMonitorRecords == 4  \* the monitored executions of SpecMonitor
MaxLeadingFailures == 51   \* SpecWindow: the failures before the first success
MaxWindowSuccesses == 50   \* SpecWindow: the successes
MaxTrailingFailures == 5   \* SpecWindow: the failures after the successes
ScenarioQuantum == 30000   \* the step of time while the scenarios run
MaxOperations == 3      \* the operations in one batch transaction
MaxKey == 2             \* the rows a transaction writes are 1..MaxKey
MaxValue == 2           \* the values written are 1..MaxValue, 0 is the initial one
TimeoutTicks == 2       \* the timeout of a batch transaction, in ticks
MaxOperationTicks == 2  \* the longest one operation takes, in ticks

JobIds == 1..MaxJobs
CallerIds == 1..MaxCallers

(* Program constants *)

RequestsPerSecond == 10
PlaceholderMs == 1000
RetryDelayMs == 5 * 60 * 1000
RecentCapacity == 100
cooldownPeriod == 5 * 60 * 1000
VALIDATION_TIMEOUT == 60000

(* two of the five default queues, which are all set up alike, and a name
   that initialize registers no queue for *)
DefaultQueues == {"dart", "krx"}
UnknownQueue == "unknown"
QueueNames == DefaultQueues \cup {UnknownQueue}
(* job.source: the name of a registered queue, or of none *)
Sources == {"dart", UnknownQueue}
Priorities == {"high", "medium", "low"}
ErrorMessages == {"timeout", "reset", "invalid"}
NoError == "none"
(* how a job operation can end: the placeholder resolves after PlaceholderMs;
   an operation may also reject, at once or after a while *)
Fates == {"ok"} \cup ErrorMessages
OpDuration(fate) == IF fate = "reset" THEN 0 ELSE PlaceholderMs

(* ErrorRecoverySystem.handleFailure: the class of a failure and whether the
   class is retriable.  "invalid" is the message of a validation error. *)
Classify(fate) == IF fate = "invalid" THEN "validation" ELSE "transient"
NonRetriable(class) == class \in {"validation", "auth"}

Min(S) == CHOOSE x \in S : \A y \in S : x <= y
Least(a, b) == IF a < b THEN a ELSE b
Monus(a, b) == IF a > b THEN a - b ELSE 0

----------------------------------------------------------------------------
(* SimplePriorityQueue *)

priorityOrder(p) == CASE p = "high" -> 3 [] p = "medium" -> 2 [] p = "low" -> 1

(* an item of a queue: the job it refers to and the job's priority, which
   nothing changes after the job is constructed *)
QueueItem(id, p) == [id |-> id, priority |-> p]

Weight(item) == priorityOrder(item.priority)

InsertAt(q, i, item) == SubSeq(q, 1, i - 1) \o <<item>> \o SubSeq(q, i, Len(q))

EnqueueAppend(q, item) == Append(q, item)

EnqueueBeforeEqual(q, item) ==
    LET lower == {i \in 1..Len(q) : Weight(item) >= Weight(q[i])}
    IN  IF lower = {} THEN Append(q, item) ELSE InsertAt(q, Min(lower), item)

(* enqueue: splice before the first item of strictly lower priority, else push *)
Enqueue(q, item) ==
    LET lower == {i \in 1..Len(q) : Weight(item) > Weight(q[i])}
    IN  IF lower = {} THEN Append(q, item) ELSE InsertAt(q, Min(lower), item)

(* dequeue: items.shift() *)
Dequeue(q) == Tail(q)

(* SimpleRateLimiter: the state is the age now - lastRequest, capped *)

Interval == 1000 \div RequestsPerSecond

CanProceed(age) == age >= Interval

WaitTime(age) == Interval - age


----------------------------------------------------------------------------
(* The state after the classes are loaded: nothing registered, no job yet. *)

FreshJob(p, s, m) ==
    [source |-> s, priority |-> p, attempts |-> 0, maxAttempts |-> m,
     status |-> "pending", error |-> NoError]

NoCall == [queue |-> UnknownQueue, result |-> "none"]

IdleCaller == [pc |-> "idle", remaining |-> 0]

InitQueue ==
    /\ isInitialized = FALSE
    /\ queues = [q \in {} |-> <<>>]
    /\ processing = [q \in {} |-> FALSE]
    /\ rateLimiters = [q \in {} |-> Interval]
    /\ jobs = [j \in {} |-> FreshJob("low", UnknownQueue, 1)]
    /\ added = {}
    /\ drains = [q \in DefaultQueues |-> <<>>]
    /\ retryTimers = <<>>
    /\ sinceStart = [q \in DefaultQueues |-> Interval]
    /\ startGap = [q \in DefaultQueues |-> Interval]
    /\ sinceFail = [j \in JobIds |-> RetryDelayMs]
    /\ lastCall = NoCall

InitLimiter ==
    /\ limiter = Interval
    /\ callers = [c \in CallerIds |-> IdleCaller]
    /\ sinceReturn = Interval
    /\ returnGap = Interval

InitItems ==
    /\ items = <<>>
    /\ arrivals = 0

(* averageDuration is a double: the record [num, den] stands for the double
   nearest to num / den, which is what the division of two integers yields *)
Quotient(a, b) == [num |-> a, den |-> b]
Zero == Quotient(0, 1)

(* Arithmetic of doubles on small naturals, exact. The double nearest to
   a / b is m / 2^e, where m is the integer nearest to a * 2^e / b (a tie goes
   to the even one) and e puts m in 2^52 .. 2^53 - 1. *)
Precision == 53

RECURSIVE BitLength(_)
BitLength(x) == IF x = 0 THEN 0 ELSE 1 + BitLength(x \div 2)

RECURSIVE Pow2(_)
Pow2(n) == IF n = 0 THEN 1 ELSE 2 * Pow2(n - 1)

RECURSIVE Pow2Mod(_, _)
Pow2Mod(e, n) == IF e = 0 THEN 1 % n ELSE (2 * Pow2Mod(e - 1, n)) % n

IsPow2(t) == t > 0 /\ Pow2(BitLength(t) - 1) = t

Abs(x) == IF x < 0 THEN 0 - x ELSE x

Exponent(a, b) ==
    LET d == BitLength(b) - BitLength(a)
        reaches == IF d >= 0 THEN a * Pow2(d) >= b ELSE a >= b * Pow2(0 - d)
    IN  IF reaches THEN Precision - 1 + d ELSE Precision + d

(* m * b - a * 2^e: how far the double lies off a / b, in units of 1 / (b * 2^e) *)
QuotientError(a, b) ==
    LET e == Exponent(a, b)
        R == ((a % b) * Pow2Mod(e, b)) % b
        odd == ((a % (2 * b)) * Pow2Mod(e, 2 * b)) % (2 * b) >= b
    IN  IF 2 * R < b THEN 0 - R
        ELSE IF 2 * R > b THEN b - R
        ELSE IF odd THEN b - R ELSE 0 - R

(* whether the double q times the integer k, rounded to a double, is the
   integer t *)
ProductEquals(q, k, t) ==
    LET a == q.num
        b == q.den
        e == Exponent(a, b)
        err == (k * QuotientError(a, b)) \div b
        ulp == BitLength(t) + e - Precision - (IF err < 0 /\ IsPow2(t) THEN 1 ELSE 0)
    IN  /\ a * k = t * b
        /\ \/ a = 0
           \/ err = 0
           \/ ulp > 0 /\ Abs(err) <= Pow2(ulp - 1)

(* two doubles that are quotients of small naturals are equal iff the
   quotients are *)
DoubleEquals(p, q) == p.num * q.den = q.num * p.den

(* the double Infinity, which lies above every duration *)
Infinity == -1

NoRate == [called |-> FALSE, value |-> Zero, times |-> 0]

InitMetrics ==
    /\ data = [count |-> 0, totalDuration |-> 0, averageDuration |-> Zero,
               minDuration |-> Infinity, maxDuration |-> 0,
               successCount |-> 0, failureCount |-> 0,
               recentExecutions |-> <<>>]
    /\ recorded = <<>>
    /\ rateResult = NoRate

(* the alerts monitorBatchExecution raises, and the severities of an Alert *)
AlertTypes == {"performance_degradation", "anomalous_failure"}
Severities == {"info", "warning", "critical"}
Alerts == AlertTypes \X Severities

(* the batch ids alerts are sent for *)
BatchIds == {"fearGreed", "dart"}

NoBatch == "none"

NoSend == [type |-> "none", severity |-> "none", dispatched |-> FALSE]

InitAlerts ==
    /\ recentAlerts = <<>>
    /\ sinceDispatch = [a \in Alerts |-> cooldownPeriod]
    /\ dispatchGap = [a \in Alerts |-> cooldownPeriod]
    /\ lastSend = NoSend
    /\ alertBatch = NoBatch
    /\ dispatchBatch = NoBatch

componentNames == <<"database", "api", "memory", "disk", "queue">>

(* no health check has run: the report a call starts from *)
NewHealth ==
    [overall |-> "healthy", components |-> <<>>, recommendations |-> <<>>]

NoProbe == [heapUsed |-> 0, heapTotal |-> 1, memoryThrows |-> FALSE, responseTime |-> 0]

InitHealth ==
    /\ health = NewHealth
    /\ probe = NoProbe

(* the ValidationResult a validateBatchProcessing call starts from; its
   metrics hold clock readings only and are left out *)
NewResult ==
    [success |-> TRUE, systemHealth |-> "healthy", validationScore |-> 100,
     issues |-> <<>>, recommendations |-> <<>>]

InitValidation ==
    /\ result = NewResult
    /\ phase = "none"
    /\ merged = 100

(* no call of the validation run has failed *)
NoFaults ==
    [infrastructure |-> 0, scenarios |-> {}, metrics |-> FALSE, recovery |-> 0,
     integrity |-> FALSE]

InitFaults == faults = NoFaults

BreakerCallers == 1..MaxBreakerCallers

(* the configured number of consecutive failures that opens the circuit *)
failureThreshold == 2

NoCallYet == [pc |-> "idle", outcome |-> "none", invoked |-> FALSE]

InitBreaker ==
    /\ circuit = "closed"
    /\ failureCount = 0
    /\ openAge = 0
    /\ trial = 0
    /\ calls = [c \in BreakerCallers |-> NoCallYet]

Rows == 1..MaxKey

Writes == [key : Rows, value : 1..MaxValue]

NoTransaction ==
    [pc |-> "idle", length |-> 0, done |-> 0, scope |-> "none",
     working |-> [k \in Rows |-> 0], before |-> [k \in Rows |-> 0],
     elapsed |-> 0, cause |-> "none",
     result |-> [success |-> FALSE, perOperationResults |-> <<>>]]

InitTransaction ==
    /\ store = [k \in Rows |-> 0]
    /\ tx = NoTransaction

(* operation: the scenario's execute(), outcome: what executeScenario resolved to *)
NoTest == [operation |-> "none", outcome |-> "none"]

InitScenarios ==
    /\ tests = [i \in 1..5 |-> NoTest]
    /\ clock = 0

MonitorCallers == 1..MaxMonitorCallers

NoOutcome == [kind |-> "none", value |-> "none"]

(* operation: how the wrapped operation settled; outcome: how the call ended;
   submitted: the alert the call handed to sendAlert *)
IdleMonitor ==
    [pc |-> "idle", operation |-> NoOutcome, outcome |-> NoOutcome,
     submitted |-> "none"]

InitMonitor ==
    /\ monitor = [c \in MonitorCallers |-> IdleMonitor]
    /\ horizon = 0

(* getQueueStatus without a queue name, or with a falsy one *)
NoName == ""

NoStatus == [queueName |-> NoName, value |-> [size |-> 0, processing |-> FALSE]]

InitStatus == queueStatus = NoStatus

Init ==
    /\ InitQueue /\ InitLimiter /\ InitItems /\ InitMetrics /\ InitAlerts /\ InitHealth
    /\ InitValidation /\ InitFaults /\ InitBreaker /\ InitTransaction /\ InitStatus
    /\ InitMonitor /\ InitScenarios

----------------------------------------------------------------------------
(* BatchQueueManager *)

initialize ==
    /\ ~isInitialized
    /\ queues' = [q \in DefaultQueues |-> <<>>]
    /\ processing' = [q \in DefaultQueues |-> FALSE]
    /\ rateLimiters' = [q \in DefaultQueues |-> Interval]
    /\ isInitialized' = TRUE
    /\ UNCHANGED <<jobs, added, drains, retryTimers, sinceStart, startGap,
                   sinceFail, lastCall>>
    /\ UNCHANGED notQueue

(* A caller constructs a BatchJob: not yet attempted, pending, at least one
   attempt allowed.  Jobs are numbered in the order they are constructed. *)
NewJob(j, p, s, m) ==
    /\ j \notin DOMAIN jobs
    /\ \A k \in JobIds : k < j => k \in DOMAIN jobs
    /\ jobs' = jobs @@ (j :> FreshJob(p, s, m))
    /\ UNCHANGED <<isInitialized, queues, processing, rateLimiters, added, drains,
                   retryTimers, sinceStart, startGap, sinceFail, lastCall>>
    /\ UNCHANGED notQueue

ItemOf(j) == QueueItem(j, jobs[j].priority)

AddJobQueuesCreate(queueName, j) ==
    IF queueName \in DOMAIN queues
    THEN [queues EXCEPT ![queueName] = Enqueue(@, ItemOf(j))]
    ELSE queues @@ (queueName :> <<ItemOf(j)>>)

AddJobQueues(queueName, j) ==
    IF queueName \in DOMAIN queues
    THEN [queues EXCEPT ![queueName] = Enqueue(@, ItemOf(j))]
    ELSE queues

AddJobResult(queueName) ==
    IF queueName \in DOMAIN queues THEN "ok" ELSE "Queue not found"

(* addJob: a job is handed to the manager by one successful call; a call
   that throws takes nothing and may be repeated. *)
addJob(queueName, j) ==
    /\ j \in DOMAIN jobs
    /\ j \notin added
    /\ queues' = AddJobQueues(queueName, j)
    /\ added' = IF AddJobResult(queueName) = "ok" THEN added \cup {j} ELSE added
    /\ lastCall' = [queue |-> queueName, result |-> AddJobResult(queueName)]
    /\ UNCHANGED <<isInitialized, processing, rateLimiters, jobs, drains, retryTimers,
                   sinceStart, startGap, sinceFail>>
    /\ UNCHANGED notQueue

----------------------------------------------------------------------------
(* processQueue and executeJob.  A run of processQueue is a record: where it
   is suspended (pc), the job it executes, the remaining time of the timer it
   awaits, and how the awaited job operation will end (fate). *)

Run(pc, j, remaining, fate) ==
    [pc |-> pc, job |-> j, remaining |-> remaining, fate |-> fate]

RemoveAt(s, i) == SubSeq(s, 1, i - 1) \o SubSeq(s, i + 1, Len(s))

ProcessingStaysClear(queueName) == processing

ProcessingOnStart(queueName) == [processing EXCEPT ![queueName] = TRUE]

FinallyKeepsFlag(q, i, D, P, J, L) ==
    /\ processing' = P
    /\ drains' = [D EXCEPT ![q] = RemoveAt(@, i)]
    /\ jobs' = J
    /\ rateLimiters' = L
    /\ UNCHANGED <<queues, sinceStart, startGap>>

(* finally { processing.set(queueName, false) } *)
Finally(q, i, D, P, J, L) ==
    /\ processing' = [P EXCEPT ![q] = FALSE]
    /\ drains' = [D EXCEPT ![q] = RemoveAt(@, i)]
    /\ jobs' = J
    /\ rateLimiters' = L
    /\ UNCHANGED <<queues, sinceStart, startGap>>

(* queue.dequeue(), then executeJob up to its await of the job operation *)
StartExec(q, i, D, P, J, L) ==
    \E fate \in Fates :
        LET j == Head(queues[q]).id
            d == OpDuration(fate) IN
        /\ queues' = [queues EXCEPT ![q] = Dequeue(@)]
        /\ jobs' = [J EXCEPT ![j].status = "processing", ![j].attempts = @ + 1]
        /\ drains' = [D EXCEPT ![q][i] = Run("exec", j, d, fate)]
        /\ processing' = P
        /\ rateLimiters' = L
        /\ startGap' = [startGap EXCEPT ![q] = sinceStart[q]]
        /\ sinceStart' = [sinceStart EXCEPT ![q] = 0]

LoopIterOnce(q, i, D, P, J) ==
    IF queues[q] = <<>> \/ D[q][i].pc = "exec"
    THEN Finally(q, i, D, P, J, rateLimiters)
    ELSE StartExec(q, i, D, P, J, rateLimiters)

(* one pass of while (!queue.isEmpty()) up to the next await *)
LoopIter(q, i, D, P, J) ==
    IF queues[q] = <<>>
    THEN Finally(q, i, D, P, J, rateLimiters)
    ELSE IF ~CanProceed(rateLimiters[q])
         THEN /\ drains' = [D EXCEPT ![q][i] =
                                Run("wait", 0, WaitTime(rateLimiters[q]), "ok")]
              /\ processing' = P
              /\ jobs' = J
              /\ UNCHANGED <<queues, rateLimiters, sinceStart, startGap>>
         ELSE StartExec(q, i, D, P, J, rateLimiters)

(* the setInterval callback of startQueueProcessors, and processQueue up to
   its first await *)
TimerFire(q) ==
    /\ q \in DOMAIN queues
    /\ ~processing[q] /\ queues[q] # <<>>
    /\ ~processing[q]
    /\ LoopIter(q, Len(drains[q]) + 1,
                [drains EXCEPT ![q] = Append(@, Run("start", 0, 0, "ok"))],
                ProcessingOnStart(q), jobs)
    /\ UNCHANGED <<isInitialized, added, retryTimers, sinceFail, lastCall>>
    /\ UNCHANGED notQueue

(* waitForNext resumes: lastRequest = Date.now(); then the dequeue.
   processQueue reaches waitForNext only when canProceed() is false, and
   lastRequest is written nowhere else, so from the state after construction
   (lastRequest = 0) no run ever waits: the action is never enabled and is not
   a disjunct of NextQueue. *)
WaitDone(q, i) ==
    /\ i \in 1..Len(drains[q])
    /\ drains[q][i].pc = "wait" /\ drains[q][i].remaining = 0
    /\ LET L == [rateLimiters EXCEPT ![q] = 0] IN
       IF queues[q] = <<>>
       THEN Finally(q, i, drains, processing, jobs, L)
       ELSE StartExec(q, i, drains, processing, jobs, L)
    /\ UNCHANGED <<isInitialized, added, retryTimers, sinceFail, lastCall>>
    /\ UNCHANGED notQueue

RetryDecisionInclusive(job) == job.attempts <= job.maxAttempts

RetryDecisionNever(job) == FALSE

RetryDecision(job) == job.attempts < job.maxAttempts

RetryTimerAtOnce(j, delay) == [job |-> j, remaining |-> 0]

(* setTimeout(callback, delay) for the retry of job j *)
RetryTimer(j, delay) == [job |-> j, remaining |-> delay]

ScheduleRetryNever(j, J) == retryTimers

ScheduleRetryAlways(j, J) == Append(retryTimers, RetryTimer(j, RetryDelayMs))

(* setTimeout(() => ..., 5 * 60 * 1000) in the retry branch only *)
ScheduleRetry(j, J) ==
    IF RetryDecision(J[j])
    THEN Append(retryTimers, RetryTimer(j, RetryDelayMs))
    ELSE retryTimers

CaughtNever(fate) == FALSE

(* catch (error) of executeJob catches whatever the operation throws *)
CaughtByExecuteJob(fate) == TRUE

(* the job fields after the try / catch of executeJob *)
Settle(job, fate) ==
    IF fate = "ok"
    THEN [job EXCEPT !.status = "completed"]
    ELSE [job EXCEPT !.error = fate,
                     !.status = IF RetryDecision(job) THEN "pending" ELSE "failed"]

(* the awaited job operation ends: the rest of executeJob, then the loop *)
OpDone(q, i) ==
    /\ i \in 1..Len(drains[q])
    /\ drains[q][i].pc = "exec" /\ drains[q][i].remaining = 0
    /\ LET j == drains[q][i].job
           fate == drains[q][i].fate
           J == [jobs EXCEPT ![j] = Settle(@, fate)]
       IN  IF fate = "ok"
           THEN /\ LoopIter(q, i, drains, processing, J)
                /\ UNCHANGED <<retryTimers, sinceFail>>
           ELSE IF CaughtByExecuteJob(fate)
                THEN /\ LoopIter(q, i, drains, processing, J)
                     /\ retryTimers' = ScheduleRetry(j, jobs)
                     /\ sinceFail' = [sinceFail EXCEPT ![j] = 0]
                ELSE /\ Finally(q, i, drains, processing, jobs, rateLimiters)
                     /\ sinceFail' = [sinceFail EXCEPT ![j] = 0]
                     /\ UNCHANGED retryTimers
    /\ UNCHANGED <<isInitialized, added, lastCall>>
    /\ UNCHANGED notQueue

RetryQueuesCreate(source, j) ==
    IF source \in DOMAIN queues
    THEN [queues EXCEPT ![source] = Enqueue(@, ItemOf(j))]
    ELSE queues @@ (source :> <<ItemOf(j)>>)

(* const queue = this.queues.get(job.source); if (queue) queue.enqueue(...) *)
RetryQueues(source, j) ==
    IF source \in DOMAIN queues
    THEN [queues EXCEPT ![source] = Enqueue(@, ItemOf(j))]
    ELSE queues

(* the retry timer fires *)
RetryFire(k) ==
    /\ k \in 1..Len(retryTimers)
    /\ retryTimers[k].remaining = 0
    /\ LET j == retryTimers[k].job
       IN  queues' = RetryQueues(jobs[j].source, j)
    /\ retryTimers' = RemoveAt(retryTimers, k)
    /\ UNCHANGED <<isInitialized, processing, rateLimiters, jobs, added, drains,
                   sinceStart, startGap, sinceFail, lastCall>>
    /\ UNCHANGED notQueue

----------------------------------------------------------------------------
(* Time passes: up to the earliest pending timer, or, when no timer is
   pending, long enough for every age to reach its cap. *)

PendingTimes ==
    (UNION {{drains[q][i].remaining : i \in 1..Len(drains[q])} : q \in DefaultQueues}
     \cup {retryTimers[k].remaining : k \in 1..Len(retryTimers)}) \ {0}

TimeStep == IF PendingTimes = {} THEN RetryDelayMs ELSE Min(PendingTimes)

Elapse(timer, d) == [timer EXCEPT !.remaining = Monus(@, d)]

Advance ==
    LET d == TimeStep IN
    /\ drains' = [q \in DefaultQueues |->
                    [i \in 1..Len(drains[q]) |-> Elapse(drains[q][i], d)]]
    /\ retryTimers' = [k \in 1..Len(retryTimers) |-> Elapse(retryTimers[k], d)]
    /\ rateLimiters' = [q \in DOMAIN rateLimiters |->
                          Least(Interval, rateLimiters[q] + d)]
    /\ sinceStart' = [q \in DefaultQueues |-> Least(Interval, sinceStart[q] + d)]
    /\ sinceFail' = [j \in JobIds |-> Least(RetryDelayMs, sinceFail[j] + d)]
    /\ UNCHANGED <<isInitialized, queues, processing, jobs, added, startGap, lastCall>>
    /\ UNCHANGED notQueue

QueueStatusRegistering(queueName) ==
    IF queueName = NoName \/ queueName \in DOMAIN queues THEN queues
    ELSE [q \in DOMAIN queues \cup {queueName} |->
            IF q = queueName THEN <<>> ELSE queues[q]]

(* getQueueStatus reads the maps and writes nothing *)
QueueStatusQueues(queueName) == queues

(* queue?.size() || 0 and this.processing.get(name) || false *)
StatusOfQueue(name) ==
    [size |-> IF name \in DOMAIN queues THEN Len(queues[name]) ELSE 0,
     processing |-> IF name \in DOMAIN processing THEN processing[name] ELSE FALSE]

QueueStatus(queueName) ==
    IF queueName # NoName
    THEN [name |-> queueName] @@ StatusOfQueue(queueName)
    ELSE [name \in DOMAIN queues |-> StatusOfQueue(name)]

getQueueStatus(queueName) ==
    /\ queueStatus' = [queueName |-> queueName, value |-> QueueStatus(queueName)]
    /\ queues' = QueueStatusQueues(queueName)
    /\ UNCHANGED <<isInitialized, processing, rateLimiters, jobs, added, drains,
                   retryTimers, sinceStart, startGap, sinceFail, lastCall>>
    /\ UNCHANGED notStatus

NextQueue ==
    \/ initialize
    \/ \E j \in JobIds, p \in Priorities, s \in Sources, m \in 1..MaxAttemptsBound :
          NewJob(j, p, s, m)
    \/ \E q \in QueueNames, j \in JobIds : addJob(q, j)
    \/ \E q \in DefaultQueues : TimerFire(q)
    \/ \E q \in DefaultQueues, i \in 1..MaxJobs : OpDone(q, i)
    \/ \E k \in 1..MaxJobs : RetryFire(k)
    \/ Advance

Next == NextQueue

(* the queue manager under its scheduling: the interval of every queue keeps
   firing, time passes, an awaited operation settles when its time has come
   and a retry timer that has run out fires *)
LivePriorities == {"high", "low"}

(* how the operations of the jobs followed to their end may end *)
LiveFates == {"ok", "timeout"}

EndsAsLiveFates ==
    \A q \in DefaultQueues : \A i \in 1..Len(drains[q]) : drains[q][i].fate \in LiveFates

LiveTimerFire(q) == TimerFire(q) /\ EndsAsLiveFates'

LiveOpDone(q, i) == OpDone(q, i) /\ EndsAsLiveFates'

NextLive ==
    \/ initialize
    \/ \E j \in JobIds, p \in LivePriorities, s \in Sources, m \in 1..MaxAttemptsBound :
          NewJob(j, p, s, m)
    \/ \E q \in DefaultQueues, j \in JobIds : addJob(q, j)
    \/ \E q \in DefaultQueues : LiveTimerFire(q)
    \/ \E q \in DefaultQueues, i \in 1..MaxJobs : LiveOpDone(q, i)
    \/ \E k \in 1..MaxJobs : RetryFire(k)
    \/ Advance

Fairness ==
    /\ \A q \in DefaultQueues : WF_vars(LiveTimerFire(q))
    /\ \A q \in DefaultQueues : \A i \in 1..MaxJobs : WF_vars(LiveOpDone(q, i))
    /\ \A k \in 1..MaxJobs : WF_vars(RetryFire(k))
    /\ WF_vars(Advance)

SpecLive == Init /\ [][NextLive]_vars /\ Fairness

(* the queue manager with every job given to one queue, under its own name as
   source and with one attempt: jobs arrive while the queue is drained *)
DrainQueue == "dart"

NextDrain ==
    \/ initialize
    \/ \E j \in 1..MaxDrainJobs, p \in Priorities : NewJob(j, p, DrainQueue, 1)
    \/ \E j \in 1..MaxDrainJobs : addJob(DrainQueue, j)
    \/ TimerFire(DrainQueue)
    \/ \E i \in 1..MaxDrainJobs : OpDone(DrainQueue, i)
    \/ Advance

SpecDrain == Init /\ [][NextDrain]_vars

Spec == Init /\ [][Next]_vars

(* BatchQueueManager with getQueueStatus called at any moment between the
   steps of the drains, on jobs of one priority for one queue *)
NextStatus ==
    \/ initialize
    \/ \E j \in JobIds, m \in 1..MaxAttemptsBound : NewJob(j, "high", "dart", m)
    \/ \E q \in QueueNames, j \in JobIds : addJob(q, j)
    \/ \E q \in DefaultQueues : TimerFire(q)
    \/ \E q \in DefaultQueues, i \in 1..MaxJobs : OpDone(q, i)
    \/ \E k \in 1..MaxJobs : RetryFire(k)
    \/ Advance
    \/ \E queueName \in QueueNames \cup {NoName} : getQueueStatus(queueName)

SpecStatus == Init /\ [][NextStatus]_vars

----------------------------------------------------------------------------
(* SimplePriorityQueue on its own: items are numbered in arrival order. *)

QEnqueue(p) ==
    /\ arrivals < MaxEnqueues
    /\ arrivals' = arrivals + 1
    /\ items' = Enqueue(items, QueueItem(arrivals + 1, p))
    /\ UNCHANGED notItems

QDequeue ==
    /\ items # <<>>
    /\ items' = Dequeue(items)
    /\ UNCHANGED arrivals
    /\ UNCHANGED notItems

NextPriorityQueue ==
    \/ \E p \in Priorities : QEnqueue(p)
    \/ QDequeue

SpecQueue == Init /\ [][NextPriorityQueue]_vars

----------------------------------------------------------------------------
(* SimpleRateLimiter on its own, with callers whose waitForNext calls may be
   pending together.  Time passes in steps of Quantum. *)

Returned ==
    /\ returnGap' = sinceReturn
    /\ sinceReturn' = 0

(* waitForNext up to its await, or to its end when there is nothing to wait *)
WaitForNextCall(c) ==
    /\ callers[c].pc = "idle"
    /\ IF limiter < Interval
       THEN /\ callers' = [callers EXCEPT ![c] =
                              [pc |-> "sleeping", remaining |-> WaitTime(limiter)]]
            /\ UNCHANGED <<limiter, sinceReturn, returnGap>>
       ELSE /\ limiter' = 0
            /\ Returned
            /\ UNCHANGED callers
    /\ UNCHANGED notLimiter

(* the setTimeout of waitForNext fires: lastRequest = Date.now() *)
WaitForNextWake(c) ==
    /\ callers[c].pc = "sleeping" /\ callers[c].remaining = 0
    /\ limiter' = 0
    /\ Returned
    /\ callers' = [callers EXCEPT ![c] = IdleCaller]
    /\ UNCHANGED notLimiter

LimiterTick ==
    /\ limiter' = Least(Interval, limiter + Quantum)
    /\ sinceReturn' = Least(Interval, sinceReturn + Quantum)
    /\ callers' = [c \in CallerIds |-> Elapse(callers[c], Quantum)]
    /\ UNCHANGED returnGap
    /\ UNCHANGED notLimiter

NextLimiter ==
    \/ \E c \in CallerIds : WaitForNextCall(c)
    \/ \E c \in CallerIds : WaitForNextWake(c)
    \/ LimiterTick

SpecLimiter == Init /\ [][NextLimiter]_vars

----------------------------------------------------------------------------
(* MetricCollector *)

(* the durations a caller measures, in ms, and the messages of its errors *)
Durations == {100, 200, 300}
MetricErrors == {"timeout"}

MathMin(a, b) == IF a = Infinity THEN b ELSE IF b = Infinity THEN a ELSE Least(a, b)
MathMax(a, b) == IF a > b THEN a ELSE b

(* an entry of recentExecutions; its timestamp is the ordinal of the record
   call that made it *)
Execution(n, duration, success, error) ==
    [timestamp |-> n, duration |-> duration, success |-> success, error |-> error]

KeepNewest(buf) == IF Len(buf) > RecentCapacity THEN SubSeq(buf, 1, Len(buf) - 1) ELSE buf

(* if (recentExecutions.length > 100) recentExecutions.shift() *)
Evict(buf) == IF Len(buf) > RecentCapacity THEN Tail(buf) ELSE buf

AverageOverCount(d) == Quotient(d.totalDuration, d.count)

AverageOf(d) == Quotient(d.totalDuration, d.successCount)

updateDurationStatsStale(d, duration) ==
    [d EXCEPT !.averageDuration = AverageOf(d),
              !.totalDuration = @ + duration,
              !.minDuration = MathMin(@, duration),
              !.maxDuration = MathMax(@, duration)]

updateDurationStats(d, duration) ==
    LET summed == [d EXCEPT !.totalDuration = @ + duration]
    IN  [summed EXCEPT !.averageDuration = AverageOf(summed),
                       !.minDuration = MathMin(@, duration),
                       !.maxDuration = MathMax(@, duration)]

(* what recordSuccess does to the collector *)
SuccessRecorded(duration) ==
    LET n == Len(recorded) + 1
        counted == [data EXCEPT !.count = @ + 1, !.successCount = @ + 1]
        entry == Execution(n, duration, TRUE, NoError)
    IN  /\ data' = [updateDurationStats(counted, duration) EXCEPT
                        !.recentExecutions = Evict(Append(@, entry))]
        /\ recorded' = Append(recorded, entry)
        /\ UNCHANGED rateResult

recordSuccess(duration) ==
    /\ SuccessRecorded(duration)
    /\ UNCHANGED notMetrics

(* what recordFailure does to the collector *)
FailureRecorded(error) ==
    LET n == Len(recorded) + 1
        entry == Execution(n, 0, FALSE, error)
    IN  /\ data' = [data EXCEPT !.count = @ + 1, !.failureCount = @ + 1,
                                !.recentExecutions = Evict(Append(@, entry))]
        /\ recorded' = Append(recorded, entry)
        /\ UNCHANGED rateResult

recordFailure(error) ==
    /\ FailureRecorded(error)
    /\ UNCHANGED notMetrics

RateOfFailures(d) == Quotient(d.failureCount, d.count)

RateOf(d) == Quotient(d.successCount, d.count)

(* the returned double is value * times, the product of two doubles *)
getSuccessRate ==
    /\ rateResult' = IF data.count = 0
                     THEN [called |-> TRUE, value |-> Zero, times |-> 0]
                     ELSE [called |-> TRUE, value |-> RateOf(data), times |-> 100]
    /\ UNCHANGED <<data, recorded>>
    /\ UNCHANGED notMetrics

NextMetrics ==
    \/ \E d \in Durations : Len(recorded) < MaxRecords /\ recordSuccess(d)
    \/ \E e \in MetricErrors : Len(recorded) < MaxRecords /\ recordFailure(e)
    \/ getSuccessRate

SpecMetrics == Init /\ [][NextMetrics]_vars

(* the collector driven past the cap of recentExecutions *)
RingDuration == 100
Failures(h) == Cardinality({i \in 1..Len(h) : ~h[i].success})

NextRing ==
    \/ Len(recorded) < MaxRingRecords /\ recordSuccess(RingDuration)
    \/ \E e \in MetricErrors :
           /\ Len(recorded) < MaxRingRecords
           /\ Failures(recorded) < MaxRingFailures
           /\ recordFailure(e)

SpecRing == Init /\ [][NextRing]_vars

----------------------------------------------------------------------------
(* AlertManager *)

AlertKeyOfType(type, severity) == type

(* `${alert.type}_${alert.severity}` *)
AlertKey(type, severity) == type \o "_" \o severity

(* lastAlert && (Date.now() - lastAlert.getTime()) < cooldownPeriod *)
InCooldown(key) == key \in DOMAIN recentAlerts /\ recentAlerts[key] < cooldownPeriod

MapSet(map, key, value) ==
    [k \in DOMAIN map \cup {key} |-> IF k = key THEN value ELSE map[k]]

SuppressedRefreshes(map, key) == MapSet(map, key, 0)

(* recentAlerts after an alert was found within its cooldown: sendAlert
   returns before recentAlerts.set *)
Suppressed(map, key) == map

(* what sendAlert does to the alert manager *)
Sent(type, severity) ==
    LET alertKey == AlertKey(type, severity)
    IN  IF InCooldown(alertKey)
        THEN /\ lastSend' = [type |-> type, severity |-> severity,
                             dispatched |-> FALSE]
             /\ recentAlerts' = Suppressed(recentAlerts, alertKey)
             /\ UNCHANGED <<sinceDispatch, dispatchGap>>
        ELSE /\ recentAlerts' = MapSet(recentAlerts, alertKey, 0)
             /\ sinceDispatch' = [sinceDispatch EXCEPT ![<<type, severity>>] = 0]
             /\ dispatchGap' = [dispatchGap EXCEPT ![<<type, severity>>] =
                                    sinceDispatch[<<type, severity>>]]
             /\ lastSend' = [type |-> type, severity |-> severity,
                             dispatched |-> TRUE]

sendAlert(batchId, type, severity) ==
    /\ Sent(type, severity)
    /\ alertBatch' = batchId
    /\ dispatchBatch' = IF lastSend'.dispatched THEN batchId ELSE dispatchBatch
    /\ UNCHANGED notAlerts

(* time passes; an age of cooldownPeriod stands for that or more *)
AlertTick ==
    /\ \E a \in Alerts : sinceDispatch[a] < cooldownPeriod
    /\ recentAlerts' = [k \in DOMAIN recentAlerts |->
                           Least(recentAlerts[k] + AlertQuantum, cooldownPeriod)]
    /\ sinceDispatch' = [a \in Alerts |->
                            Least(sinceDispatch[a] + AlertQuantum, cooldownPeriod)]
    /\ UNCHANGED <<dispatchGap, lastSend, xvars>>
    /\ UNCHANGED notAlerts

NextAlerts ==
    \/ \E t \in AlertTypes, s \in Severities : sendAlert("fearGreed", t, s)
    \/ AlertTick

SpecAlerts == Init /\ [][NextAlerts]_vars

(* the severities monitorBatchExecution sends its alerts with *)
MonitorSeverities == {"warning", "critical"}

(* alerts of several batch ids *)
NextCooldown ==
    \/ \E b \in BatchIds, t \in AlertTypes, s \in MonitorSeverities : sendAlert(b, t, s)
    \/ AlertTick

SpecCooldown == Init /\ [][NextCooldown]_vars

----------------------------------------------------------------------------
(* BatchMonitoringService.performHealthCheck *)

(* whether the double q times the integer k is a double above the integer t;
   the two roundings decide it only when q * k is t exactly *)
ProductGreater(q, k, t) ==
    \/ q.num * k > t * q.den
    \/ /\ q.num * k = t * q.den
       /\ ~ProductEquals(q, k, t)
       /\ QuotientError(q.num, q.den) > 0

(* the result of a check; usage and responseTime are set by the checks that
   measure them *)
Component(status, usage, responseTime) ==
    [status |-> status, usage |-> usage, responseTime |-> responseTime]

Fulfilled(value) == [status |-> "fulfilled", value |-> value]

SlowMs == 5000

checkDatabaseHealth(responseTime) ==
    IF responseTime > SlowMs
    THEN Component("degraded", Zero, responseTime)
    ELSE Component("healthy", Zero, responseTime)

checkApiEndpointHealth == Component("healthy", Zero, 0)

ExceedsOrReaches(usage, percent) ==
    ProductGreater(usage, 100, percent) \/ ProductEquals(usage, 100, percent)

(* usagePercentage > percent, where usagePercentage = usage * 100 *)
Exceeds(usage, percent) == ProductGreater(usage, 100, percent)

checkMemoryUsage(heapUsed, heapTotal, throws) ==
    LET usage == Quotient(heapUsed, heapTotal)
    IN  IF throws THEN Component("unhealthy", Zero, 0)
        ELSE IF Exceeds(usage, 90) THEN Component("unhealthy", usage, 0)
        ELSE IF Exceeds(usage, 70) THEN Component("degraded", usage, 0)
        ELSE Component("healthy", usage, 0)

checkDiskSpace == Component("healthy", Zero, 0)

checkQueueHealth == Component("healthy", Zero, 0)

(* checks.forEach: the component of every check, unhealthy for one that rejected *)
ComponentsOf(checks) ==
    [i \in 1..Len(checks) |->
        IF checks[i].status = "fulfilled"
        THEN checks[i].value
        ELSE Component("unhealthy", Zero, 0)]

OverallDegradedFirst(components, overall) ==
    IF \E i \in DOMAIN components : components[i].status = "degraded" THEN "degraded"
    ELSE IF \E i \in DOMAIN components : components[i].status = "unhealthy" THEN "unhealthy"
    ELSE overall

(* the overall status, from the one the forEach left *)
Overall(components, overall) ==
    IF \E i \in DOMAIN components : components[i].status = "unhealthy" THEN "unhealthy"
    ELSE IF \E i \in DOMAIN components : components[i].status = "degraded" THEN "degraded"
    ELSE overall

Recommendation(component, status) == [component |-> component, status |-> status]

DegradedCasesMemoryOnly == {"memory"}

(* the cases of the switch on a degraded component *)
DegradedCases == {"memory", "database", "queue"}

RECURSIVE generateHealthRecommendations(_, _)
generateHealthRecommendations(components, i) ==
    IF i > Len(components) THEN <<>>
    ELSE LET name == componentNames[i]
             status == components[i].status
             own == IF status = "degraded"
                    THEN IF name \in DegradedCases
                         THEN <<Recommendation(name, status)>>
                         ELSE <<>>
                    ELSE IF status = "unhealthy"
                         THEN <<Recommendation(name, status)>>
                         ELSE <<>>
         IN  own \o generateHealthRecommendations(components, i + 1)

Report(checks) ==
    LET components == ComponentsOf(checks)
        afterEach == IF \E i \in 1..Len(checks) : checks[i].status = "rejected"
                     THEN "unhealthy" ELSE NewHealth.overall
    IN  [overall |-> Overall(components, afterEach),
         components |-> components,
         recommendations |-> generateHealthRecommendations(components, 1)]

(* none of the five checks rejects: each returns from its own catch, or has
   nothing in it that throws *)
HealthChecked(heapUsed, heapTotal, throws, responseTime) ==
    LET checks == <<Fulfilled(checkDatabaseHealth(responseTime)),
                    Fulfilled(checkApiEndpointHealth),
                    Fulfilled(checkMemoryUsage(heapUsed, heapTotal, throws)),
                    Fulfilled(checkDiskSpace),
                    Fulfilled(checkQueueHealth)>>
    IN  /\ health' = Report(checks)
        /\ probe' = [heapUsed |-> heapUsed, heapTotal |-> heapTotal,
                     memoryThrows |-> throws, responseTime |-> responseTime]

performHealthCheck(heapUsed, heapTotal, throws, responseTime) ==
    /\ HealthChecked(heapUsed, heapTotal, throws, responseTime)
    /\ UNCHANGED notHealth

(* the differences of two clock readings the database check may see *)
ResponseTimes == {0, SlowMs, SlowMs + 1}

(* the sizes of the heap the process may report *)
HeapTotals == {MaxHeap \div 2, MaxHeap}

NextHealth ==
    \E total \in HeapTotals, used \in 0..MaxHeap, throws \in BOOLEAN,
       responseTime \in ResponseTimes :
        /\ used <= total
        /\ performHealthCheck(used, total, throws, responseTime)

SpecHealth == Init /\ [][NextHealth]_vars

----------------------------------------------------------------------------
(* BatchValidationService *)

(* a ValidationIssue, without its texts *)
Issue(severity, component) == [severity |-> severity, component |-> component]

(* one check of a phase: the issues it pushes and what it takes off the score *)
Found(issues, penalty) == [issues |-> issues, penalty |-> penalty]
Nothing == Found(<<>>, 0)

Repeat(x, n) == [i \in 1..n |-> x]

RECURSIVE IssuesOf(_, _)
IssuesOf(steps, n) ==
    IF n = 0 THEN <<>> ELSE IssuesOf(steps, n - 1) \o steps[n].issues

RECURSIVE PenaltyOf(_, _)
PenaltyOf(steps, n) ==
    IF n = 0 THEN 0 ELSE PenaltyOf(steps, n - 1) + steps[n].penalty

(* what a phase returns: { issues, validationScore: Math.max(0, score) } *)
Partial(issues, score) == [issues |-> issues, validationScore |-> MathMax(0, score)]

SteppedSilent(steps, throwsAt, caught, zeroes, caughtPenalty) ==
    LET done == IF throwsAt = 0 THEN Len(steps) ELSE throwsAt - 1
    IN  Partial(IssuesOf(steps, done), 100 - PenaltyOf(steps, done))

(* a phase whose checks run in a try block: when a call of it throws
   (throwsAt, 0 for none) the checks before that call have had their effect
   and the catch adds its issue and sets the score to 0 or takes
   caughtPenalty off it *)
Stepped(steps, throwsAt, caught, zeroes, caughtPenalty) ==
    IF throwsAt = 0
    THEN Partial(IssuesOf(steps, Len(steps)), 100 - PenaltyOf(steps, Len(steps)))
    ELSE LET done == throwsAt - 1
         IN  Partial(IssuesOf(steps, done) \o <<caught>>,
                     IF zeroes THEN 0
                     ELSE 100 - PenaltyOf(steps, done) - caughtPenalty)

validateInfrastructure(queuesEmpty, anomalous, open, dbUninitialized, throwsAt) ==
    Stepped(<<IF queuesEmpty
              THEN Found(<<Issue("critical", "batch_queue")>>, 20) ELSE Nothing,
              IF anomalous
              THEN Found(<<Issue("warning", "error_recovery")>>, 10) ELSE Nothing,
              Found(Repeat(Issue("critical", "rate_limiting"), open), 15 * open),
              IF dbUninitialized
              THEN Found(<<Issue("critical", "database")>>, 25) ELSE Nothing>>,
            throwsAt, Issue("critical", "infrastructure"), TRUE, 0)

(* the scenarios of executeTestScenarios, by their critical flag *)
scenarios == <<TRUE, TRUE, FALSE, FALSE, FALSE>>

(* executeScenario never rejects: it resolves to the scenario's result, or to
   a failure when the scenario or the timeout rejects *)
executeTestScenarios(succeeded) ==
    LET steps == [i \in 1..Len(scenarios) |->
                    IF succeeded[i] THEN Nothing
                    ELSE IF scenarios[i]
                         THEN Found(<<Issue("critical", "test_scenario")>>, 20)
                         ELSE Found(<<Issue("warning", "test_scenario")>>, 10)]
    IN  Partial(IssuesOf(steps, Len(steps)), 100 - PenaltyOf(steps, Len(steps)))

validatePerformance(overall, successRate, averageResponseTime, throwsAt) ==
    Stepped(<<IF overall = "unhealthy"
              THEN Found(<<Issue("critical", "system_health")>>, 30)
              ELSE IF overall = "degraded"
                   THEN Found(<<Issue("warning", "system_health")>>, 15)
                   ELSE Nothing,
              (IF successRate < 95
               THEN IF successRate < 80
                    THEN Found(<<Issue("critical", "success_rate")>>, 25)
                    ELSE Found(<<Issue("warning", "success_rate")>>, 10)
               ELSE Nothing),
              IF averageResponseTime > 30000
              THEN Found(<<Issue("warning", "response_time")>>, 10) ELSE Nothing>>,
            throwsAt, Issue("critical", "performance"), TRUE, 0)

validateErrorRecovery(activeCircuitBreakers, action, throwsAt) ==
    Stepped(<<IF activeCircuitBreakers > 0
              THEN Found(<<Issue("warning", "error_recovery")>>, 15) ELSE Nothing,
              IF action = "dead_letter"
              THEN Found(<<Issue("warning", "error_recovery")>>, 10) ELSE Nothing>>,
            throwsAt, Issue("critical", "error_recovery"), FALSE, 20)

validateDataIntegrity(transactionSucceeded, throws) ==
    Stepped(<<IF transactionSucceeded THEN Nothing
              ELSE Found(<<Issue("warning", "data_integrity")>>, 15)>>,
            IF throws THEN 1 ELSE 0,
            Issue("warning", "data_integrity"), FALSE, 10)

mergeResults(target, source) ==
    [target EXCEPT !.issues = @ \o source.issues,
                   !.validationScore = Least(@, source.validationScore)]

Count(issues, severity) ==
    Cardinality({i \in 1..Len(issues) : issues[i].severity = severity})

calculateValidationScoreUnclamped(issues) ==
    100 - 25 * Count(issues, "critical") - 10 * Count(issues, "warning")
        - 2 * Count(issues, "info")

calculateValidationScore(issues) ==
    MathMax(0, 100 - 25 * Count(issues, "critical") - 10 * Count(issues, "warning")
                   - 2 * Count(issues, "info"))

determineSystemHealthByScore(score, issues) ==
    IF score < 50 THEN "unhealthy"
    ELSE IF score < 80 THEN "degraded"
    ELSE "healthy"

determineSystemHealth(score, issues) ==
    LET hasCriticalIssues == \E i \in 1..Len(issues) : issues[i].severity = "critical"
    IN  IF hasCriticalIssues \/ score < 50 THEN "unhealthy"
        ELSE IF score < 80 THEN "degraded"
        ELSE "healthy"

(* a recommendation string, by what it is about and the number in it *)
Advice(about, count) == [about |-> about, count |-> count]

(* the components of the issues, each once, in the order of their first issue *)
RECURSIVE ComponentOrder(_, _)
ComponentOrder(issues, n) ==
    IF n = 0 THEN <<>>
    ELSE LET before == ComponentOrder(issues, n - 1)
             c == issues[n].component
         IN  IF \E i \in 1..Len(before) : before[i] = c THEN before
             ELSE Append(before, c)

generateRecommendations(issues) ==
    LET criticalIssues == Count(issues, "critical")
        warningIssues == Count(issues, "warning")
        order == ComponentOrder(issues, Len(issues))
        several(c) == Cardinality({i \in 1..Len(issues) : issues[i].component = c}) > 1
        crowded == SelectSeq(order, several)
        found == (IF criticalIssues > 0
                  THEN <<Advice("critical", criticalIssues)>> ELSE <<>>)
                 \o (IF warningIssues > 0
                     THEN <<Advice("warning", warningIssues)>> ELSE <<>>)
                 \o [i \in 1..Len(crowded) |-> Advice(crowded[i], 0)]
    IN  IF found = <<>> THEN <<Advice("normal", 0)>> ELSE found

(* a phase has resolved: its result is merged and the next phase is awaited *)
Merged(from, source, to) ==
    /\ phase = from
    /\ result' = mergeResults(result, source)
    /\ merged' = Least(merged, source.validationScore)
    /\ phase' = to

Merge(from, source, to) ==
    /\ Merged(from, source, to)
    /\ UNCHANGED notValidation

(* validateBatchProcessing up to its first await. Every phase resolves: four
   catch what their collaborators throw and executeTestScenarios settles its
   scenarios, so the catch around the phases has nothing to catch and success
   stays true. *)
Started ==
    /\ phase \in {"none", "returned", "caught"}
    /\ result' = NewResult
    /\ merged' = NewResult.validationScore
    /\ phase' = "infrastructure"

validateBatchProcessing ==
    /\ Started
    /\ UNCHANGED notValidation

InfrastructureDone ==
    \E queuesEmpty \in BOOLEAN, anomalous \in BOOLEAN, open \in 0..MaxApis,
       dbUninitialized \in BOOLEAN, throwsAt \in 0..4 :
        Merge("infrastructure",
              validateInfrastructure(queuesEmpty, anomalous, open, dbUninitialized,
                                     throwsAt),
              "scenarios")

ScenariosDone ==
    \E succeeded \in [1..Len(scenarios) -> BOOLEAN] :
        Merge("scenarios", executeTestScenarios(succeeded), "performance")

PerformanceDone ==
    \E overall \in {"healthy", "degraded", "unhealthy"},
       successRate \in {79, 80, 94, 95},
       averageResponseTime \in {30000, 30001}, throwsAt \in 0..2 :
        Merge("performance",
              validatePerformance(overall, successRate, averageResponseTime, throwsAt),
              "recovery")

RecoveryDone ==
    \E activeCircuitBreakers \in 0..1, action \in {"retry", "dead_letter"},
       throwsAt \in 0..2 :
        Merge("recovery",
              validateErrorRecovery(activeCircuitBreakers, action, throwsAt),
              "integrity")

(* the last phase has resolved: its result is merged, score, health and
   recommendations are computed from the issues, and the result returned *)
Finalized(source) ==
    LET all == mergeResults(result, source)
        score == calculateValidationScore(all.issues)
    IN  /\ phase = "integrity"
        /\ result' = [all EXCEPT
                         !.validationScore = score,
                         !.systemHealth = determineSystemHealth(score, all.issues),
                         !.recommendations = generateRecommendations(all.issues)]
        /\ merged' = all.validationScore
        /\ phase' = "returned"

IntegrityDone ==
    \E transactionSucceeded \in BOOLEAN, throws \in BOOLEAN :
        /\ Finalized(validateDataIntegrity(transactionSucceeded, throws))
        /\ UNCHANGED notValidation

NextValidation ==
    \/ validateBatchProcessing
    \/ InfrastructureDone
    \/ ScenariosDone
    \/ PerformanceDone
    \/ RecoveryDone
    \/ IntegrityDone

SpecValidation == Init /\ [][NextValidation]_vars

CaughtKeepsSuccess(r) ==
    [r EXCEPT !.systemHealth = "unhealthy",
              !.validationScore = 0,
              !.issues = Append(@, Issue("critical", "validation_system"))]

(* the catch around the phases of validateBatchProcessing *)
Caught(r) ==
    [r EXCEPT !.success = FALSE,
              !.systemHealth = "unhealthy",
              !.validationScore = 0,
              !.issues = Append(@, Issue("critical", "validation_system"))]

(* the last phase resolves, the score, the health and the recommendations are
   set, and the logger call that follows them in the try block throws: the one
   call of the block that no phase catches for itself *)
CompletionThrows ==
    \E transactionSucceeded \in BOOLEAN, throws \in BOOLEAN :
        LET all == mergeResults(result,
                                validateDataIntegrity(transactionSucceeded, throws))
            score == calculateValidationScore(all.issues)
            computed == [all EXCEPT
                            !.validationScore = score,
                            !.systemHealth = determineSystemHealth(score, all.issues),
                            !.recommendations = generateRecommendations(all.issues)]
        IN  /\ phase = "integrity"
            /\ result' = Caught(computed)
            /\ merged' = all.validationScore
            /\ phase' = "caught"
            /\ UNCHANGED notValidation

(* validation runs, those included whose try block throws *)
NextOutcome ==
    \/ validateBatchProcessing
    \/ InfrastructureDone
    \/ ScenariosDone
    \/ PerformanceDone
    \/ RecoveryDone
    \/ IntegrityDone
    \/ CompletionThrows

SpecOutcome == Init /\ [][NextOutcome]_vars

(* validateBatchProcessing with the calls it makes: what fails in a run is
   kept in faults, and validatePerformance runs performHealthCheck. The
   findings that are no failures are left at one value each. *)
RunStarted ==
    /\ Started
    /\ faults' = NoFaults
    /\ UNCHANGED hvars
    /\ UNCHANGED notHarness

RunInfrastructure ==
    \E throwsAt \in 0..4 :
        /\ Merged("infrastructure",
                  validateInfrastructure(FALSE, FALSE, 0, FALSE, throwsAt),
                  "scenarios")
        /\ faults' = [faults EXCEPT !.infrastructure = throwsAt]
        /\ UNCHANGED hvars
        /\ UNCHANGED notHarness

RunScenarios ==
    \E succeeded \in [1..Len(scenarios) -> BOOLEAN] :
        /\ Merged("scenarios", executeTestScenarios(succeeded), "performance")
        /\ faults' = [faults EXCEPT
                         !.scenarios = {i \in 1..Len(scenarios) : ~succeeded[i]}]
        /\ UNCHANGED hvars
        /\ UNCHANGED notHarness

RunPerformance ==
    \E used \in {MaxHeap \div 2, MaxHeap}, throws \in BOOLEAN,
       responseTime \in {0, SlowMs + 1}, metricsThrow \in BOOLEAN :
        /\ HealthChecked(used, MaxHeap, throws, responseTime)
        /\ Merged("performance",
                  validatePerformance(health'.overall, 95, 0,
                                      IF metricsThrow THEN 2 ELSE 0),
                  "recovery")
        /\ faults' = [faults EXCEPT !.metrics = metricsThrow]
        /\ UNCHANGED notHarness

RunRecovery ==
    \E throwsAt \in 0..2 :
        /\ Merged("recovery", validateErrorRecovery(0, "retry", throwsAt), "integrity")
        /\ faults' = [faults EXCEPT !.recovery = throwsAt]
        /\ UNCHANGED hvars
        /\ UNCHANGED notHarness

RunIntegrity ==
    \E throws \in BOOLEAN :
        /\ Finalized(validateDataIntegrity(TRUE, throws))
        /\ faults' = [faults EXCEPT !.integrity = throws]
        /\ UNCHANGED hvars
        /\ UNCHANGED notHarness

NextRun ==
    \/ RunStarted
    \/ RunInfrastructure
    \/ RunScenarios
    \/ RunPerformance
    \/ RunRecovery
    \/ RunIntegrity

SpecRun == Init /\ [][NextRun]_vars

----------------------------------------------------------------------------
(* RateLimitingService.executeWithRateLimit on one API key: the circuit
   breaker. A call awaits pacing, checks the circuit, runs the operation and
   updates the circuit; the calls of several callers overlap at the awaits. *)

(* executeWithRateLimit up to its await of the pacing *)
BreakerCall(c) ==
    /\ calls[c].pc = "idle"
    /\ calls' = [calls EXCEPT ![c] = [pc |-> "pacing", outcome |-> "none",
                                      invoked |-> FALSE]]
    /\ UNCHANGED <<circuit, failureCount, openAge, trial>>
    /\ UNCHANGED notBreaker

CooldownElapsed == openAge >= CooldownTicks

AdmitsWhenHalfOpen(state) == state = "closed" \/ state = "half-open"

(* a circuit that is neither open nor half-open lets the call through *)
Admits(state) == state = "closed"

(* the pacing is over: the circuit is checked and the operation invoked, or
   the call fails with CircuitOpenError; an open circuit whose cooldown has
   elapsed becomes half-open for the one call that finds it so *)
BreakerCheck(c) ==
    /\ calls[c].pc = "pacing"
    /\ IF circuit = "open" /\ CooldownElapsed
       THEN /\ circuit' = "half-open"
            /\ trial' = c
            /\ calls' = [calls EXCEPT ![c] = [pc |-> "running", outcome |-> "none",
                                              invoked |-> TRUE]]
       ELSE IF Admits(circuit)
       THEN /\ calls' = [calls EXCEPT ![c] = [pc |-> "running", outcome |-> "none",
                                              invoked |-> TRUE]]
            /\ UNCHANGED <<circuit, trial>>
       ELSE /\ calls' = [calls EXCEPT ![c] = [pc |-> "idle",
                                              outcome |-> "circuit_open",
                                              invoked |-> FALSE]]
            /\ UNCHANGED <<circuit, trial>>
    /\ UNCHANGED <<failureCount, openAge>>
    /\ UNCHANGED notBreaker

OpensNever(count) == FALSE

(* the threshold of consecutive failures is reached *)
Opens(count) == count >= failureThreshold

(* the operation has settled: a success closes a half-open circuit and clears
   the count, a failure counts, re-opens a half-open circuit and opens a closed
   one at the threshold; each transition is one compare-and-set. No operation
   fails once the count has reached MaxFailureCount. *)
BreakerSettle(c, ok) ==
    /\ calls[c].pc = "running"
    /\ ok \/ failureCount < MaxFailureCount
    /\ calls' = [calls EXCEPT ![c] = [pc |-> "idle",
                                      outcome |-> IF ok THEN "ok" ELSE "error",
                                      invoked |-> TRUE]]
    /\ IF ok
       THEN /\ failureCount' = 0
            /\ circuit' = IF circuit = "half-open" THEN "closed" ELSE circuit
            /\ trial' = IF circuit = "half-open" THEN 0 ELSE trial
            /\ UNCHANGED openAge
       ELSE /\ failureCount' = failureCount + 1
            /\ IF circuit = "half-open" \/ (circuit = "closed" /\ Opens(failureCount + 1))
               THEN /\ circuit' = "open"
                    /\ openAge' = 0
                    /\ trial' = 0
               ELSE UNCHANGED <<circuit, openAge, trial>>
    /\ UNCHANGED notBreaker

(* time passes for the open circuit *)
BreakerTick ==
    /\ circuit = "open"
    /\ openAge < CooldownTicks
    /\ openAge' = openAge + 1
    /\ UNCHANGED <<circuit, failureCount, trial, calls>>
    /\ UNCHANGED notBreaker

NextBreaker ==
    \/ \E c \in BreakerCallers : BreakerCall(c)
    \/ \E c \in BreakerCallers : BreakerCheck(c)
    \/ \E c \in BreakerCallers, ok \in BOOLEAN : BreakerSettle(c, ok)
    \/ BreakerTick

SpecBreaker == Init /\ [][NextBreaker]_vars

----------------------------------------------------------------------------
(* TransactionalDatabaseService.executeBatchTransaction: the operations run
   one after the other in one transaction scope, on a working copy that is
   committed when all have succeeded within the timeout and discarded
   otherwise. *)

(* the call opens the scope; the operations are opaque functions, so only
   the length of the list is fixed here and what each one writes is drawn
   when it runs *)
BeginTransaction(length) ==
    /\ tx.pc # "running"
    /\ tx' = [NoTransaction EXCEPT !.pc = "running", !.length = length,
                                   !.scope = "open", !.working = store,
                                   !.before = store]
    /\ UNCHANGED store
    /\ UNCHANGED notTransaction

RolledBackPartly(before, working) == working

(* what is observable after a rollback *)
RolledBack(before, working) == before

(* the scope is released by a rollback: the result reports the failure *)
Rollback(cause, results, elapsed) ==
    /\ store' = RolledBack(tx.before, tx.working)
    /\ tx' = [tx EXCEPT !.pc = "returned", !.scope = "rolled back",
                        !.cause = cause, !.elapsed = elapsed,
                        !.result = [success |-> FALSE,
                                    perOperationResults |-> results]]

(* the next operation runs inside the scope; its failure, or the timeout
   exceeded when it settles, rolls everything back; the last one commits *)
RunOperation(op, ok, ticks) ==
    /\ tx.pc = "running"
    /\ LET i == tx.done + 1
           elapsed == tx.elapsed + ticks
           applied == [tx.working EXCEPT ![op.key] = op.value]
       IN  IF ~ok
           THEN Rollback("failure", Append(tx.result.perOperationResults, "error"),
                         elapsed)
           ELSE IF elapsed > TimeoutTicks
           THEN Rollback("timeout", Append(tx.result.perOperationResults, "ok"),
                         elapsed)
           ELSE IF i = tx.length
           THEN /\ store' = applied
                /\ tx' = [tx EXCEPT !.pc = "returned", !.scope = "committed",
                                    !.done = i, !.working = applied,
                                    !.elapsed = elapsed,
                                    !.result = [success |-> TRUE,
                                        perOperationResults |->
                                            Append(tx.result.perOperationResults, "ok")]]
           ELSE /\ tx' = [tx EXCEPT !.done = i, !.working = applied,
                                    !.elapsed = elapsed,
                                    !.result.perOperationResults = Append(@, "ok")]
                /\ UNCHANGED store
    /\ UNCHANGED notTransaction

NextTransaction ==
    \/ \E length \in 1..MaxOperations : BeginTransaction(length)
    \/ \E op \in Writes, ok \in BOOLEAN, ticks \in 0..MaxOperationTicks :
            RunOperation(op, ok, ticks)

SpecTransaction == Init /\ [][NextTransaction]_vars

----------------------------------------------------------------------------
(* BatchMonitoringService.monitorBatchExecution on one batch id. The call
   runs up to the await of the operation; when the operation has settled it
   records the outcome, raises the alert and returns or rethrows. sendAlert
   has no await of its own and the logger is taken not to throw. *)

MonitorDurations == {0, 100, 300}
MonitorValues == {"rows"}
MonitorErrors == {"timeout", "reset"}

(* whether the double q times the integer k is a double below the integer t;
   the two roundings decide it only when q * k is t exactly *)
ProductLess(q, k, t) ==
    \/ q.num * k < t * q.den
    \/ /\ q.num * k = t * q.den
       /\ ~ProductEquals(q, k, t)
       /\ QuotientError(q.num, q.den) < 0

isPerformanceDegradingInclusive(d, duration) ==
    IF d.averageDuration.num = 0 THEN FALSE
    ELSE ~ProductGreater(d.averageDuration, 2, duration)

(* avgDuration === 0 ? false : duration > avgDuration * 2.0, on the collector
   d of the batch id *)
isPerformanceDegrading(d, duration) ==
    IF d.averageDuration.num = 0 THEN FALSE
    ELSE ProductLess(d.averageDuration, 2, duration)

FailureRateOverWindow(d) ==
    Quotient(Cardinality({i \in 1..Len(d.recentExecutions) :
                            ~d.recentExecutions[i].success}),
             Len(d.recentExecutions))

(* metrics.failureCount / metrics.count, to be multiplied by 100 *)
FailureRate(d) == Quotient(d.failureCount, d.count)

(* the entries of recentExecutions newer than ten minutes that failed *)
RecentFailures(d, tenMinutesAgo) ==
    Cardinality({i \in 1..Len(d.recentExecutions) :
                    /\ d.recentExecutions[i].timestamp > tenMinutesAgo
                    /\ ~d.recentExecutions[i].success})

analyzeFailurePattern(d, tenMinutesAgo) ==
    LET exceeds == d.count > 0 /\ ProductGreater(FailureRate(d), 100, 50)
        recentFailures == RecentFailures(d, tenMinutesAgo)
    IN  [isAnomalous |-> exceeds \/ recentFailures >= 5,
         recentFailures |-> recentFailures]

PropagatedUnlessAlert(settled, alert) ==
    IF alert = "none" THEN settled ELSE [kind |-> "thrown", value |-> alert]

(* return result, throw error: what the call hands to its caller once the
   await of sendAlert, if any, is over *)
Propagated(settled, alert) == settled

(* the call up to its await of operation(); recordStart does nothing *)
MonitorCall(c) ==
    /\ monitor[c].pc = "idle"
    /\ monitor' = [monitor EXCEPT ![c] = [IdleMonitor EXCEPT !.pc = "running"]]
    /\ UNCHANGED <<horizon, mvars, avars>>
    /\ UNCHANGED notMonitor

(* the operation resolved *)
MonitorResolved(c, value, duration) ==
    /\ monitor[c].pc = "running"
    /\ SuccessRecorded(duration)
    /\ LET alert == IF isPerformanceDegrading(data', duration)
                    THEN "performance_degradation" ELSE "none"
           settled == [kind |-> "returned", value |-> value]
       IN  /\ IF alert # "none"
              THEN Sent("performance_degradation", "warning")
              ELSE UNCHANGED avars
           /\ monitor' = [monitor EXCEPT ![c] =
                            [pc |-> "idle", operation |-> settled,
                             outcome |-> Propagated(settled, alert),
                             submitted |-> alert]]
    /\ UNCHANGED horizon
    /\ UNCHANGED notMonitor

(* the operation rejected *)
AnalysedCollectorStale(before, after) == before

(* the collector analyzeFailurePattern reads: the one of the batch id, after
   recordFailure has run on it *)
AnalysedCollector(before, after) == after

MonitorRejected(c, error) ==
    /\ monitor[c].pc = "running"
    /\ FailureRecorded(error)
    /\ LET pattern == analyzeFailurePattern(AnalysedCollector(data, data'), horizon)
           alert == IF pattern.isAnomalous THEN "anomalous_failure" ELSE "none"
           settled == [kind |-> "thrown", value |-> error]
       IN  /\ IF alert # "none"
              THEN Sent("anomalous_failure", "critical")
              ELSE UNCHANGED avars
           /\ monitor' = [monitor EXCEPT ![c] =
                            [pc |-> "idle", operation |-> settled,
                             outcome |-> Propagated(settled, alert),
                             submitted |-> alert]]
    /\ UNCHANGED horizon
    /\ UNCHANGED notMonitor

(* ten minutes or more pass: every record made so far is old and every
   cooldown is over *)
TenMinutesPass ==
    /\ horizon < Len(recorded)
    /\ horizon' = Len(recorded)
    /\ recentAlerts' = [k \in DOMAIN recentAlerts |-> cooldownPeriod]
    /\ sinceDispatch' = [a \in Alerts |-> cooldownPeriod]
    /\ UNCHANGED <<dispatchGap, lastSend, monitor, mvars>>
    /\ UNCHANGED notMonitor

NextMonitor ==
    \/ \E c \in MonitorCallers : MonitorCall(c)
    \/ \E c \in MonitorCallers, value \in MonitorValues, duration \in MonitorDurations :
            Len(recorded) < MaxMonitorRecords /\ MonitorResolved(c, value, duration)
    \/ \E c \in MonitorCallers, error \in MonitorErrors :
            Len(recorded) < MaxMonitorRecords /\ MonitorRejected(c, error)
    \/ TenMinutesPass

SpecMonitor == Init /\ [][NextMonitor]_vars

(* a batch id that fails for a stretch, is quiet for ten minutes or not,
   succeeds for a stretch and fails again, its executions one at a time *)
Leading(h) ==
    IF \E i \in 1..Len(h) : h[i].success
    THEN (CHOOSE i \in 1..Len(h) : h[i].success /\ \A k \in 1..(i - 1) : ~h[k].success) - 1
    ELSE Len(h)

NextWindow ==
    \/ MonitorCall(1)
    \/ /\ Failures(recorded) = Leading(recorded)
       /\ data.successCount < MaxWindowSuccesses
       /\ MonitorResolved(1, "rows", RingDuration)
    \/ /\ IF data.successCount = 0
          THEN horizon = 0 /\ data.failureCount < MaxLeadingFailures
          ELSE Failures(recorded) - Leading(recorded) < MaxTrailingFailures
       /\ MonitorRejected(1, "timeout")
    \/ /\ data.successCount = 0
       /\ TenMinutesPass

SpecWindow == Init /\ [][NextWindow]_vars

----------------------------------------------------------------------------
(* executeTestScenarios with its scenarios in flight: each executeScenario
   races the scenario's execute() against a timer of VALIDATION_TIMEOUT;
   Promise.allSettled resumes the phase when all five have resolved. The
   other phases run on a healthy system. *)

ScenarioIds == 1..Len(scenarios)

(* validateBatchProcessing and validateInfrastructure up to the start of the
   scenarios *)
TestRunStarted ==
    /\ Started
    /\ tests' = [i \in ScenarioIds |-> NoTest]
    /\ clock' = 0
    /\ UNCHANGED notScenarios

TestInfrastructure ==
    /\ Merged("infrastructure", validateInfrastructure(FALSE, FALSE, 0, FALSE, 0),
              "scenarios")
    /\ UNCHANGED <<tests, clock>>
    /\ UNCHANGED notScenarios

(* scenarios.map(scenario => this.executeScenario(scenario)): every execute()
   is called and every timer set, then the phase awaits *)
ScenariosStarted ==
    /\ phase = "scenarios"
    /\ \A i \in ScenarioIds : tests[i] = NoTest
    /\ tests' = [i \in ScenarioIds |->
                    [operation |-> "running", outcome |-> "pending"]]
    /\ clock' = 0
    /\ UNCHANGED vvars
    /\ UNCHANGED notScenarios

RacedLast(outcome, settled) == settled

(* Promise.race settles once: what settles later is dropped *)
Raced(outcome, settled) == IF outcome = "pending" THEN settled ELSE outcome

(* execute() of scenario i resolves, with success or with the error it caught;
   this may be after the timeout and after the validation has gone on *)
ScenarioSettles(i, ok) ==
    /\ tests[i].operation = "running"
    /\ LET settled == IF ok THEN "ok" ELSE "failed"
       IN  tests' = [tests EXCEPT ![i] =
                        [operation |-> settled,
                         outcome |-> Raced(tests[i].outcome, settled)]]
    /\ UNCHANGED clock
    /\ UNCHANGED vvars
    /\ UNCHANGED notScenarios

(* the timer of scenario i fires; it rejects the race when execute() has not
   resolved yet, and executeScenario's catch turns that into a failure *)
ScenarioTimeout(i) ==
    /\ tests[i].outcome = "pending"
    /\ clock >= VALIDATION_TIMEOUT
    /\ tests' = [tests EXCEPT ![i].outcome = Raced(@, "timeout")]
    /\ UNCHANGED clock
    /\ UNCHANGED vvars
    /\ UNCHANGED notScenarios

(* time passes while scenarios are in flight; a timer that is due fires
   before more time passes *)
ScenarioTick ==
    /\ \E i \in ScenarioIds : tests[i].outcome = "pending"
    /\ clock < VALIDATION_TIMEOUT
    /\ clock' = Least(clock + ScenarioQuantum, VALIDATION_TIMEOUT)
    /\ UNCHANGED tests
    /\ UNCHANGED vvars
    /\ UNCHANGED notScenarios

(* all five executeScenario calls have resolved: the issues are collected *)
ScenariosCollected ==
    /\ \A i \in ScenarioIds : tests[i].outcome \in {"ok", "failed", "timeout"}
    /\ Merged("scenarios",
              executeTestScenarios([i \in ScenarioIds |-> tests[i].outcome = "ok"]),
              "performance")
    /\ UNCHANGED <<tests, clock>>
    /\ UNCHANGED notScenarios

TestPerformance ==
    /\ Merged("performance", validatePerformance("healthy", 95, 0, 0), "recovery")
    /\ UNCHANGED <<tests, clock>>
    /\ UNCHANGED notScenarios

TestRecovery ==
    /\ Merged("recovery", validateErrorRecovery(0, "retry", 0), "integrity")
    /\ UNCHANGED <<tests, clock>>
    /\ UNCHANGED notScenarios

TestIntegrity ==
    /\ Finalized(validateDataIntegrity(TRUE, FALSE))
    /\ UNCHANGED <<tests, clock>>
    /\ UNCHANGED notScenarios

NextScenarios ==
    \/ TestRunStarted
    \/ TestInfrastructure
    \/ ScenariosStarted
    \/ \E i \in ScenarioIds, ok \in BOOLEAN : ScenarioSettles(i, ok)
    \/ \E i \in ScenarioIds : ScenarioTimeout(i)
    \/ ScenarioTick
    \/ ScenariosCollected
    \/ TestPerformance
    \/ TestRecovery
    \/ TestIntegrity

SpecScenarios == Init /\ [][NextScenarios]_vars

----------------------------------------------------------------------------
(* Helpers of the properties *)

Positions(q) == 1..Len(q)

InQueue(item, q) == \E i \in Positions(q) : q[i] = item

Queued(j) == \E q \in DOMAIN queues : \E i \in Positions(queues[q]) : queues[q][i].id = j

Occurrences(j) ==
    LET n[q \in SUBSET DOMAIN queues] ==
            IF q = {} THEN 0
            ELSE LET x == CHOOSE y \in q : TRUE
                 IN  n[q \ {x}] + Cardinality({i \in Positions(queues[x]) : queues[x][i].id = j})
    IN  n[DOMAIN queues]

Executing(q, j) ==
    \E i \in Positions(drains[q]) : drains[q][i].pc = "exec" /\ drains[q][i].job = j

ExecutingAnywhere(j) == \E q \in DefaultQueues : Executing(q, j)

FateOf(j) ==
    LET q == CHOOSE x \in DefaultQueues : Executing(x, j)
        i == CHOOSE k \in Positions(drains[q]) : drains[q][k].job = j
    IN  drains[q][i].fate

HasRetryTimer(j, timers) == \E k \in Positions(timers) : timers[k].job = j

RetryTimersOf(j, timers) == {k \in Positions(timers) : timers[k].job = j}

(* the step ends the execution of job j *)
EndsExecution(j) ==
    /\ j \in DOMAIN jobs
    /\ jobs[j].status = "processing"
    /\ ExecutingAnywhere(j)
    /\ ~(\E q \in DefaultQueues : \E i \in Positions(drains'[q]) :
            drains'[q][i].pc = "exec" /\ drains'[q][i].job = j)

(* the step ends the execution of job j with a failure *)
FailsExecution(j) == EndsExecution(j) /\ FateOf(j) # "ok"

----------------------------------------------------------------------------
(* C1: the items of a priority queue are always in order of non-increasing
   priority weight, so the next dequeue returns an item of the highest weight
   in the queue; enqueuing low, high, medium gives the order high, medium, low. *)
C1_PriorityOrder ==
    /\ \A i, j \in Positions(items) : i < j => Weight(items[i]) >= Weight(items[j])
    /\ \A i \in Positions(items) : Weight(Head(items)) >= Weight(items[i])
    /\ ( /\ Len(items) = 3
         /\ InQueue(QueueItem(1, "low"), items)
         /\ InQueue(QueueItem(2, "high"), items)
         /\ InQueue(QueueItem(3, "medium"), items) )
       => items = <<QueueItem(2, "high"), QueueItem(3, "medium"), QueueItem(1, "low")>>

C1_Witness ==
    items = <<QueueItem(2, "high"), QueueItem(3, "medium"), QueueItem(1, "low")>>

(* C2: among items of equal priority the queue keeps arrival order, and an
   item never leaves the queue while an item of the same priority that arrived
   before it is still queued. *)
C2_FifoWithinPriority ==
    /\ [](\A i, j \in Positions(items) :
            (i < j /\ items[i].priority = items[j].priority) => items[i].id < items[j].id)
    /\ [][\A i, j \in Positions(items) :
            (/\ items[i].priority = items[j].priority
             /\ items[i].id < items[j].id
             /\ ~InQueue(items[j], items'))
            => ~InQueue(items[i], items')]_vars

C2_Witness ==
    /\ arrivals = 4
    /\ items = <<QueueItem(1, "medium"), QueueItem(4, "medium"), QueueItem(3, "low")>>

(* C3: a queue never has two processQueue runs in flight and never two jobs in
   status processing; every processing job is the job of a run; and whenever a
   registered queue is not guarded and not empty its trigger can start a drain,
   whatever the other queues are doing. *)
C3_SingleFlight ==
    /\ \A q \in DefaultQueues :
          /\ Len(drains[q]) <= 1
          /\ Cardinality({j \in DOMAIN jobs :
                            jobs[j].status = "processing" /\ Executing(q, j)}) <= 1
    /\ \A j \in DOMAIN jobs : jobs[j].status = "processing" => ExecutingAnywhere(j)
    /\ \A q \in DOMAIN queues :
          (~processing[q] /\ queues[q] # <<>>) => ENABLED TimerFire(q)

C3_Witness ==
    \E q \in DefaultQueues :
        /\ Len(drains[q]) = 1
        /\ drains[q][1].pc = "exec"
        /\ drains[q][1].remaining > 0
        /\ queues[q] # <<>>
        /\ processing[q]

(* C4: a job that is pending or processing has attempts <= maxAttempts. *)
C4_AttemptBound ==
    \A j \in DOMAIN jobs :
        jobs[j].status \in {"pending", "processing"}
            => jobs[j].attempts <= jobs[j].maxAttempts

C4_Witness ==
    \E j \in DOMAIN jobs :
        /\ jobs[j].status = "processing"
        /\ jobs[j].attempts = 2
        /\ jobs[j].maxAttempts = 2
        /\ jobs[j].error # NoError

(* C5: two consecutive execution starts of a queue are at least the limiter's
   interval apart. *)
C5_RateInvariant == \A q \in DefaultQueues : startGap[q] >= Interval

(* C6: two consecutive returns of waitForNext calls on one limiter are at
   least the limiter's interval apart, also when calls are pending together. *)
C6_ReturnsSpaced == returnGap >= Interval

(* C7: an addJob naming an unregistered queue (any name before initialize)
   ends with the queue-not-found error and changes no queue, no processing
   flag and no job. *)
C7_UnknownQueueRejected ==
    [][lastCall' # lastCall =>
          /\ (lastCall'.queue \notin DOMAIN queues \/ ~isInitialized)
                => /\ lastCall'.result = "Queue not found"
                   /\ UNCHANGED <<queues, processing, jobs, added>>
          /\ lastCall'.result = "Queue not found"
                => lastCall'.queue \notin DOMAIN queues]_vars

C7_Witness ==
    /\ isInitialized
    /\ lastCall = [queue |-> UnknownQueue, result |-> "Queue not found"]
    /\ \E q \in DOMAIN queues : queues[q] # <<>>
    /\ \E j \in DOMAIN jobs : j \notin added

(* C8: when a job's operation fails with attempts < maxAttempts the job becomes
   pending with one retry timer of the retry delay, and when that timer fires,
   no earlier than the retry delay after the failure, the job is in a queue
   once; otherwise the job becomes failed; either way it keeps the message. *)
C8_FailureHandling ==
    [][\A j \in DOMAIN jobs :
          /\ FailsExecution(j) =>
                /\ jobs'[j].error = FateOf(j)
                /\ IF jobs[j].attempts < jobs[j].maxAttempts
                   THEN /\ jobs'[j].status = "pending"
                        /\ Cardinality(RetryTimersOf(j, retryTimers')) = 1
                        /\ \A k \in RetryTimersOf(j, retryTimers') :
                              retryTimers'[k].remaining = RetryDelayMs
                        /\ ~Queued(j)'
                   ELSE /\ jobs'[j].status = "failed"
                        /\ ~HasRetryTimer(j, retryTimers')
          /\ (HasRetryTimer(j, retryTimers) /\ ~HasRetryTimer(j, retryTimers')) =>
                /\ sinceFail[j] >= RetryDelayMs
                /\ ~Queued(j)
                /\ Occurrences(j)' = 1
                /\ jobs'[j].status = "pending"]_vars

(* C9: a job in status failed stays as it is, status and error included, is in
   no queue, has no retry timer and is not executed; the error it holds when
   it becomes failed is the message of that failure. *)
C9_TerminalPermanence ==
    [][\A j \in DOMAIN jobs :
          /\ jobs[j].status = "failed" =>
                /\ jobs'[j] = jobs[j]
                /\ ~Queued(j)'
                /\ ~HasRetryTimer(j, retryTimers')
          /\ (jobs[j].status # "failed" /\ jobs'[j].status = "failed") =>
                /\ jobs'[j].error = FateOf(j)
                /\ jobs'[j].attempts = jobs'[j].maxAttempts
                /\ ~Queued(j)'
                /\ ~HasRetryTimer(j, retryTimers')]_vars

C9_Witness ==
    \E j \in DOMAIN jobs :
        /\ jobs[j].status = "failed"
        /\ jobs[j].attempts = 2
        /\ sinceFail[j] = RetryDelayMs
        /\ \E k \in DOMAIN jobs : k # j /\ jobs[k].status = "processing"

(* C10: a failing operation is settled inside executeJob (the job becomes
   pending or failed); the same run then takes the next job of the queue if
   there is one and otherwise ends with the processing flag cleared; and
   whenever no run is in flight on a queue its flag is false. *)
C10_FailureIsolation ==
    /\ [](\A q \in DOMAIN queues : drains[q] = <<>> => ~processing[q])
    /\ [][\A q \in DefaultQueues : \A j \in DOMAIN jobs :
            (Executing(q, j) /\ FailsExecution(j)) =>
                /\ jobs'[j].status \in {"pending", "failed"}
                /\ IF queues[q] # <<>>
                   THEN /\ Len(drains'[q]) = 1
                        /\ drains'[q][1].pc = "exec"
                        /\ drains'[q][1].job = Head(queues[q]).id
                        /\ processing'[q]
                   ELSE /\ drains'[q] = <<>>
                        /\ ~processing'[q]]_vars

C10_Witness ==
    \E q \in DefaultQueues : \E j, k \in DOMAIN jobs :
        /\ j # k
        /\ jobs[j].error # NoError
        /\ jobs[j].status \in {"pending", "failed"}
        /\ sinceFail[j] = 0
        /\ startGap[q] = 0
        /\ drains[q] = <<Run("exec", k, OpDuration(drains[q][1].fate), drains[q][1].fate)>>
        /\ jobs[k].attempts = 1

(* C11: a job failing with a validation or auth error becomes failed at once
   and gets no retry timer, whatever attempts remain; a job failing with any
   other error becomes pending with a retry timer while attempts <
   maxAttempts and failed otherwise. *)
C11_ClassifiedRecovery ==
    [][\A j \in DOMAIN jobs :
          FailsExecution(j) =>
              IF NonRetriable(Classify(FateOf(j)))
              THEN /\ jobs'[j].status = "failed"
                   /\ ~HasRetryTimer(j, retryTimers')
              ELSE IF jobs[j].attempts < jobs[j].maxAttempts
                   THEN /\ jobs'[j].status = "pending"
                        /\ HasRetryTimer(j, retryTimers')
                   ELSE /\ jobs'[j].status = "failed"
                        /\ ~HasRetryTimer(j, retryTimers')]_vars

(* C12: a job becomes failed only with attempts = maxAttempts or after a
   failure of a non-retriable class: never with attempts < maxAttempts after a
   retriable failure, and never with attempts > maxAttempts. *)
C12_FailedOnlyWhenExhausted ==
    /\ [](\A j \in DOMAIN jobs :
            jobs[j].status = "failed" => jobs[j].attempts <= jobs[j].maxAttempts)
    /\ [][\A j \in DOMAIN jobs :
            (jobs[j].status # "failed" /\ jobs'[j].status = "failed") =>
                /\ FailsExecution(j)
                /\ \/ jobs'[j].attempts = jobs'[j].maxAttempts
                   \/ NonRetriable(Classify(FateOf(j)))
                /\ jobs'[j].attempts <= jobs'[j].maxAttempts]_vars

C12_Witness ==
    \E j \in DOMAIN jobs :
        /\ jobs[j].status = "failed"
        /\ jobs[j].error = "timeout"
        /\ jobs[j].attempts = jobs[j].maxAttempts
        /\ jobs[j].maxAttempts = MaxAttemptsBound

----------------------------------------------------------------------------
(* Helpers of the metric properties *)

Successes(h) == {i \in 1..Len(h) : h[i].success}

RECURSIVE SumOf(_, _)
SumOf(h, S) ==
    IF S = {} THEN 0
    ELSE LET i == CHOOSE x \in S : TRUE IN h[i].duration + SumOf(h, S \ {i})

SuccessfulDurations(h) == {h[i].duration : i \in Successes(h)}

(* the durations of the successes of h, in recording order *)
DurationsOf(h) ==
    LET successful(x) == x.success
        kept == SelectSeq(h, successful)
    IN  [i \in 1..Len(kept) |-> kept[i].duration]

Max(S) == CHOOSE x \in S : \A y \in S : x >= y

(* C13 as stated: after any interleaving of recordSuccess and recordFailure
   calls with at least one success, averageDuration * successCount equals
   totalDuration, which is the sum of the successful durations, and
   minDuration and maxDuration are their extrema. *)
C13_AverageTimesCount ==
    Successes(recorded) # {} =>
        /\ ProductEquals(data.averageDuration, data.successCount, data.totalDuration)
        /\ data.totalDuration = SumOf(recorded, Successes(recorded))
        /\ data.minDuration = Min(SuccessfulDurations(recorded))
        /\ data.maxDuration = Max(SuccessfulDurations(recorded))

(* C13, amended: after any interleaving of recordSuccess and recordFailure
   calls with at least one success, averageDuration is the double
   totalDuration / successCount, where successCount is the number of
   successes and totalDuration the sum of their durations; minDuration and
   maxDuration are the extrema of those durations; and after exactly the
   successes 100, 200, 300 the three are 200, 100, 300. *)
C13_DurationStats ==
    /\ Successes(recorded) # {} =>
           /\ data.successCount = Cardinality(Successes(recorded))
           /\ data.totalDuration = SumOf(recorded, Successes(recorded))
           /\ DoubleEquals(data.averageDuration,
                           Quotient(SumOf(recorded, Successes(recorded)),
                                    Cardinality(Successes(recorded))))
           /\ data.minDuration = Min(SuccessfulDurations(recorded))
           /\ data.maxDuration = Max(SuccessfulDurations(recorded))
    /\ DurationsOf(recorded) = <<100, 200, 300>> =>
           /\ ProductEquals(data.averageDuration, 1, 200)
           /\ data.minDuration = 100
           /\ data.maxDuration = 300

C13_Witness ==
    /\ Cardinality(Successes(recorded)) = 7
    /\ Len(recorded) = 7
    /\ data.totalDuration = 900
    /\ data.minDuration = 100
    /\ data.maxDuration = 300

(* C15: in every reachable state of a MetricCollector count is successCount +
   failureCount; each record call raises count by exactly 1; getSuccessRate
   changes no metric state and returns successCount / count * 100 for the
   successes and calls recorded so far, 0 when nothing is recorded. *)
C15_SuccessRateAccounting ==
    /\ [](/\ data.count = data.successCount + data.failureCount
          /\ data.count = Len(recorded)
          /\ data.successCount = Cardinality(Successes(recorded)))
    /\ [][/\ Len(recorded') = Len(recorded) + 1 => data'.count = data.count + 1
          /\ recorded' = recorded => data' = data
          /\ rateResult' # rateResult =>
                /\ rateResult'.called
                /\ data' = data
                /\ IF Len(recorded) = 0
                   THEN ProductEquals(rateResult'.value, rateResult'.times, 0)
                   ELSE /\ DoubleEquals(rateResult'.value,
                                        Quotient(Cardinality(Successes(recorded)),
                                                 Len(recorded)))
                        /\ rateResult'.times = 100]_vars

C15_Witness ==
    /\ rateResult.called
    /\ data.count = 3
    /\ data.successCount = 2
    /\ data.failureCount = 1
    /\ rateResult.value = Quotient(2, 3)
    /\ rateResult.times = 100

(* C14: after any sequence of recordSuccess and recordFailure calls,
   recentExecutions holds at most 100 entries, and they are exactly the most
   recent min(count, 100) recorded outcomes, in recording order. *)
C14_RingBuffer ==
    LET ring == data.recentExecutions
        kept == Least(data.count, RecentCapacity)
    IN  /\ Len(ring) <= RecentCapacity
        /\ Len(ring) = kept
        /\ ring = SubSeq(recorded, Len(recorded) - kept + 1, Len(recorded))

C14_Witness ==
    /\ Len(recorded) = RecentCapacity + 2
    /\ Len(data.recentExecutions) = RecentCapacity
    /\ data.recentExecutions[1].timestamp = 3
    /\ ~recorded[1].success
    /\ data.recentExecutions[RecentCapacity].timestamp = RecentCapacity + 2

(* C16: for every (type, severity), two alerts that are dispatched are at
   least the cooldown apart; a sendAlert call is suppressed only when an alert
   of its own (type, severity) was dispatched less than the cooldown before,
   and is dispatched otherwise, so the calls within the cooldown after a
   dispatched alert add none to it, whatever was sent under other keys. *)
C16_AlertDedup ==
    /\ [](\A a \in Alerts : dispatchGap[a] >= cooldownPeriod)
    /\ [][lastSend' # lastSend =>
             LET a == <<lastSend'.type, lastSend'.severity>>
             IN  lastSend'.dispatched <=> sinceDispatch[a] >= cooldownPeriod]_vars

C16_Witness ==
    /\ lastSend = [type |-> "anomalous_failure", severity |-> "critical",
                   dispatched |-> FALSE]
    /\ sinceDispatch[<<"anomalous_failure", "critical">>] = 2 * AlertQuantum
    /\ sinceDispatch[<<"anomalous_failure", "warning">>] = 0
    /\ sinceDispatch[<<"performance_degradation", "critical">>] = AlertQuantum

----------------------------------------------------------------------------
(* Helpers of the health properties *)

Checked == health.components # <<>>

StatusOf(name) ==
    LET i == CHOOSE k \in 1..Len(componentNames) : componentNames[k] = name
    IN  health.components[i].status

Rank(status) ==
    CASE status = "healthy" -> 0 [] status = "degraded" -> 1 [] status = "unhealthy" -> 2

(* C17: the overall status of a health report is the worst of its component
   statuses under healthy < degraded < unhealthy: unhealthy iff some component
   is unhealthy, degraded iff none is unhealthy and some is degraded, healthy
   otherwise; the report has the five components, and a check that does not
   fulfil shows as an unhealthy component. *)
C17_OverallIsWorst ==
    Checked =>
        /\ DOMAIN health.components = 1..Len(componentNames)
        /\ Rank(health.overall) =
               Max({Rank(health.components[i].status) : i \in DOMAIN health.components})
        /\ health.overall = "unhealthy" <=>
               \E i \in DOMAIN health.components :
                   health.components[i].status = "unhealthy"
        /\ health.overall = "degraded" <=>
               /\ \A i \in DOMAIN health.components :
                      health.components[i].status # "unhealthy"
               /\ \E i \in DOMAIN health.components :
                      health.components[i].status = "degraded"
        /\ probe.memoryThrows => StatusOf("memory") = "unhealthy"
        /\ probe.responseTime > SlowMs => StatusOf("database") = "degraded"

C17_Witness ==
    /\ Checked
    /\ StatusOf("database") = "degraded"
    /\ StatusOf("memory") = "unhealthy"
    /\ StatusOf("disk") = "healthy"
    /\ health.overall = "unhealthy"

(* C18: when the memory check reads the heap, usage above 90% gives component
   memory unhealthy and overall unhealthy; usage above 70% and at most 90%
   gives memory degraded; usage at most 70% gives memory healthy. Usage is
   heapUsed / heapTotal as a percentage. *)
C18_MemoryThresholds ==
    (Checked /\ ~probe.memoryThrows) =>
        LET used == probe.heapUsed * 100
            total == probe.heapTotal
        IN  /\ used > 90 * total =>
                   StatusOf("memory") = "unhealthy" /\ health.overall = "unhealthy"
            /\ (used > 70 * total /\ used <= 90 * total) =>
                   StatusOf("memory") = "degraded"
            /\ used <= 70 * total => StatusOf("memory") = "healthy"

C18_Witness ==
    /\ Checked
    /\ ~probe.memoryThrows
    /\ probe.heapUsed = 19
    /\ probe.heapTotal = 20
    /\ probe.responseTime = 0
    /\ StatusOf("memory") = "unhealthy"
    /\ health.overall = "unhealthy"

----------------------------------------------------------------------------
(* Helpers of the validation properties *)

Finished == phase = "returned"

HasCritical == \E i \in 1..Len(result.issues) : result.issues[i].severity = "critical"

(* C19: for every validation run that completes without a harness-level
   exception, the returned validationScore is max(0, 100 - 25 * criticals -
   10 * warnings - 2 * infos) over the full returned issue list and lies in
   0..100, whatever the per-phase scores merged before were. *)
C19_ValidationScore ==
    (Finished /\ result.success) =>
        LET raw == 100 - 25 * Count(result.issues, "critical")
                       - 10 * Count(result.issues, "warning")
                       - 2 * Count(result.issues, "info")
        IN  /\ result.validationScore = IF raw < 0 THEN 0 ELSE raw
            /\ result.validationScore \in 0..100

C19_Witness ==
    /\ Finished
    /\ result.success
    /\ result.issues = <<Issue("critical", "infrastructure")>>
    /\ merged = 0
    /\ result.validationScore = 75

(* C20: the systemHealth of a returned validation result is unhealthy iff the
   issue list holds a critical issue or the score is below 50, degraded iff
   not so and the score is below 80, healthy otherwise; with no issue the
   score is 100 and the health healthy. *)
C20_SystemHealth ==
    Finished =>
        /\ result.systemHealth = "unhealthy" <=>
               (HasCritical \/ result.validationScore < 50)
        /\ result.systemHealth = "degraded" <=>
               /\ ~(HasCritical \/ result.validationScore < 50)
               /\ result.validationScore < 80
        /\ result.systemHealth = "healthy" <=>
               (~HasCritical /\ result.validationScore >= 80)
        /\ result.issues = <<>> =>
               result.validationScore = 100 /\ result.systemHealth = "healthy"

C20_Witness ==
    /\ Finished
    /\ result.success
    /\ Count(result.issues, "critical") = 1
    /\ Len(result.issues) = 1
    /\ result.validationScore = 75
    /\ result.systemHealth = "unhealthy"

----------------------------------------------------------------------------
(* Helpers of the run properties *)

Reported(issue) == \E i \in 1..Len(result.issues) : result.issues[i] = issue

ScenarioIssues(critical) ==
    Cardinality({i \in 1..Len(result.issues) :
                    result.issues[i] = Issue(IF critical THEN "critical" ELSE "warning",
                                             "test_scenario")})

(* C21: performHealthCheck and validateBatchProcessing do not throw but return
   a structured result that reports what failed: a memory check that throws
   shows as the unhealthy component memory of a report with all five
   components, and a validation run returns a result in which every
   collaborator call that threw and every scenario that failed has its issue. *)
C21_FailuresReported ==
    /\ phase \in {"none", "infrastructure", "scenarios", "performance", "recovery",
                   "integrity", "returned"}
    /\ (Checked /\ probe.memoryThrows) =>
           /\ DOMAIN health.components = 1..Len(componentNames)
           /\ StatusOf("memory") = "unhealthy"
           /\ health.overall = "unhealthy"
    /\ Finished =>
           /\ result.validationScore \in 0..100
           /\ result.systemHealth \in {"healthy", "degraded", "unhealthy"}
           /\ result.recommendations # <<>>
           /\ faults.infrastructure # 0 => Reported(Issue("critical", "infrastructure"))
           /\ ScenarioIssues(TRUE) =
                  Cardinality({i \in faults.scenarios : scenarios[i]})
           /\ ScenarioIssues(FALSE) =
                  Cardinality({i \in faults.scenarios : ~scenarios[i]})
           /\ faults.metrics => Reported(Issue("critical", "performance"))
           /\ health.overall = "unhealthy" => Reported(Issue("critical", "system_health"))
           /\ faults.recovery # 0 => Reported(Issue("critical", "error_recovery"))
           /\ faults.integrity => Reported(Issue("warning", "data_integrity"))

C21_Witness ==
    /\ Finished
    /\ faults.infrastructure = 1
    /\ faults.scenarios = {1, 3}
    /\ faults.metrics
    /\ probe.memoryThrows
    /\ faults.recovery = 2
    /\ faults.integrity
    /\ Len(result.issues) = 7

(* C22: when a failure brings the count of consecutive failed executions to
   the threshold the circuit is open, a closed circuit never holds a count at
   the threshold, and a call that checks the circuit while it is open and the
   cooldown has not elapsed fails with CircuitOpenError without invoking its
   operation and without changing the circuit *)
C22_CircuitOpens ==
    [][/\ \A c \in BreakerCallers :
            /\ (calls[c].pc = "running" /\ calls'[c].outcome = "error"
                    /\ failureCount' >= failureThreshold)
                => circuit' = "open"
            /\ (calls[c].pc = "pacing" /\ calls'[c].pc # "pacing"
                    /\ circuit = "open" /\ ~CooldownElapsed)
                => /\ calls'[c] = [pc |-> "idle", outcome |-> "circuit_open",
                                   invoked |-> FALSE]
                   /\ circuit' = "open"
       /\ (circuit' = "closed" => failureCount' < failureThreshold)
       /\ (circuit = "open" /\ ~CooldownElapsed => circuit' = "open")]_vars

C22_Witness ==
    /\ circuit = "open"
    /\ ~CooldownElapsed
    /\ failureCount = failureThreshold
    /\ \E c \in BreakerCallers : calls[c].outcome = "circuit_open"
    /\ \E c \in BreakerCallers : calls[c].pc = "pacing"

(* C23: a call is admitted only by a closed circuit, or by an open one whose
   cooldown has elapsed, which it turns half-open as its trial call; a
   half-open circuit has exactly one trial call, in flight, and admits no
   other; the trial's success closes the circuit and its failure re-opens it;
   the circuit leaves the open state only this way *)
C23_HalfOpenTrial ==
    [][/\ \A c \in BreakerCallers :
            /\ (calls[c].pc = "pacing" /\ calls'[c].pc = "running")
                => \/ circuit = "closed" /\ circuit' = "closed"
                   \/ /\ circuit = "open" /\ CooldownElapsed
                      /\ circuit' = "half-open" /\ trial' = c
            /\ (circuit = "half-open" /\ trial = c /\ calls[c].pc = "running"
                    /\ calls'[c].pc = "idle")
                => circuit' = IF calls'[c].outcome = "ok" THEN "closed" ELSE "open"
       /\ (circuit = "open" /\ circuit' # "open")
            => /\ CooldownElapsed
               /\ circuit' = "half-open"
               /\ Cardinality({c \in BreakerCallers : calls[c].pc = "pacing"
                                    /\ calls'[c].pc = "running"}) = 1
       /\ (circuit' = "half-open"
            => trial' \in BreakerCallers /\ calls'[trial'].pc = "running")]_vars

C23_Witness ==
    /\ circuit = "half-open"
    /\ calls[1].pc = "running" /\ trial = 1
    /\ calls[2] = [pc |-> "idle", outcome |-> "circuit_open", invoked |-> FALSE]
    /\ calls[3].pc = "pacing"

(* C24: when executeBatchTransaction has returned after an operation failed or
   the timeout was exceeded, the store is what it was before the call, the
   result reports success = false and the scope is released; the store never
   changes while the call runs *)
C24_AllOrNothing ==
    /\ (tx.pc = "returned" /\ tx.cause # "none")
            => /\ store = tx.before
               /\ ~tx.result.success
               /\ tx.scope = "rolled back"
    /\ (tx.pc = "returned" /\ tx.cause = "none")
            => /\ tx.result.success
               /\ tx.scope = "committed"
               /\ store = tx.working
    /\ tx.pc = "running" => store = tx.before /\ tx.scope = "open"

C24_Witness ==
    /\ tx.pc = "returned"
    /\ tx.cause = "timeout"
    /\ tx.done = 2
    /\ tx.working # tx.before
    /\ store # [k \in Rows |-> 0]

(* C25: a call of getQueueStatus, for a registered name, an unregistered name
   or all queues, leaves the queues, the guards, the limiters and the jobs as
   they were, registers no queue, and reports for each queue its current
   length and the current value of its guard; an unregistered name is reported
   with size 0 and processing false *)
C25_StatusIsPureRead ==
    [][queueStatus' # queueStatus
        => /\ qvars' = qvars
           /\ LET n == queueStatus'.queueName
                  reported(q) == IF n = NoName THEN queueStatus'.value[q] ELSE queueStatus'.value
                  asked == IF n = NoName THEN DOMAIN queues ELSE {n}
              IN  /\ n # NoName => queueStatus'.value.name = n
                  /\ n = NoName => DOMAIN queueStatus'.value = DOMAIN queues
                  /\ \A q \in asked :
                        /\ reported(q).size =
                              (IF q \in DOMAIN queues THEN Len(queues[q]) ELSE 0)
                        /\ reported(q).processing =
                              (q \in DOMAIN processing /\ processing[q])]_vars

C25_Witness ==
    /\ queueStatus.queueName = "dart"
    /\ queueStatus.value = [name |-> "dart", size |-> 1, processing |-> TRUE]
    /\ Len(queues["dart"]) = 1
    /\ processing["dart"]

(* C26: when a monitored execution of the batch id ends successfully, a
   performance_degradation alert of severity warning is handed to sendAlert if
   its duration exceeds twice the average duration the collector of the batch
   id holds, which is the total over the count of its successful executions,
   this one included; otherwise no alert is handed over and the alert manager
   is left as it was *)
C26_DegradationAlert ==
    [][\A c \in MonitorCallers :
        (monitor[c].pc = "running" /\ monitor'[c].operation.kind = "returned")
        => LET duration == recorded'[Len(recorded')].duration
           IN  IF duration * data'.successCount > 2 * data'.totalDuration
               THEN /\ monitor'[c].submitted = "performance_degradation"
                    /\ lastSend'.type = "performance_degradation"
                    /\ lastSend'.severity = "warning"
               ELSE /\ monitor'[c].submitted = "none"
                    /\ UNCHANGED avars]_vars

C26_Witness ==
    /\ monitor[1].submitted = "performance_degradation"
    /\ lastSend = [type |-> "performance_degradation", severity |-> "warning",
                   dispatched |-> TRUE]
    /\ DurationsOf(recorded) = <<0, 0, 100>>
    /\ monitor[2].submitted = "none"
    /\ monitor[2].operation.kind = "returned"

(* C27 as stated: a failed execution is flagged iff more than half of the
   entries of recentExecutions are failures or five of them or more are
   failures newer than ten minutes *)
C27_WindowRate ==
    [][\A c \in MonitorCallers :
        (monitor[c].pc = "running" /\ monitor'[c].operation.kind = "thrown")
        => (monitor'[c].submitted = "anomalous_failure"
            <=> \/ 100 * Failures(data'.recentExecutions)
                        > 50 * Len(data'.recentExecutions)
                \/ RecentFailures(data', horizon) >= 5)]_vars

(* C27: when a monitored execution of the batch id fails, a critical
   anomalous_failure alert is handed to sendAlert iff, the failure counted,
   more than half of all the executions the batch id ever had have failed, or
   five or more entries of recentExecutions are failures newer than ten
   minutes *)
C27_LifetimeRate ==
    [][\A c \in MonitorCallers :
        (monitor[c].pc = "running" /\ monitor'[c].operation.kind = "thrown")
        => /\ monitor'[c].submitted = "anomalous_failure"
                <=> \/ 100 * data'.failureCount > 50 * data'.count
                    \/ RecentFailures(data', horizon) >= 5
           /\ monitor'[c].submitted = "anomalous_failure"
                => lastSend'.type = "anomalous_failure" /\ lastSend'.severity = "critical"
           /\ monitor'[c].submitted # "anomalous_failure"
                => monitor'[c].submitted = "none" /\ UNCHANGED avars]_vars

C27_Witness ==
    /\ monitor[1].submitted = "anomalous_failure"
    /\ monitor[1].operation.kind = "thrown"
    /\ data.count > RecentCapacity
    /\ 100 * Failures(data.recentExecutions) <= 50 * Len(data.recentExecutions)
    /\ RecentFailures(data, horizon) < 5

(* C28: a call of monitorBatchExecution ends as its operation did, returning
   the operation's value or throwing the operation's error, whether or not it
   handed an alert to sendAlert and whether or not the alert was dispatched;
   it adds one record, a success for a value and a failure carrying the error
   otherwise, and records are added by nothing else *)
C28_Transparent ==
    [][/\ \A c \in MonitorCallers :
            (monitor[c].pc = "running" /\ monitor'[c].pc = "idle")
            => /\ monitor'[c].outcome = monitor'[c].operation
               /\ monitor'[c].outcome.kind \in {"returned", "thrown"}
               /\ Len(recorded') = Len(recorded) + 1
               /\ SubSeq(recorded', 1, Len(recorded)) = recorded
               /\ recorded'[Len(recorded')].success
                    = (monitor'[c].operation.kind = "returned")
               /\ monitor'[c].operation.kind = "thrown"
                    => recorded'[Len(recorded')].error = monitor'[c].operation.value
               /\ data'.count = data.count + 1
       /\ recorded' # recorded
            => Cardinality({c \in MonitorCallers :
                    monitor[c].pc = "running" /\ monitor'[c].pc = "idle"}) = 1]_vars

C28_Witness ==
    /\ monitor[1].outcome = [kind |-> "returned", value |-> "rows"]
    /\ monitor[1].submitted = "performance_degradation"
    /\ monitor[2].outcome = [kind |-> "thrown", value |-> "reset"]
    /\ monitor[2].submitted = "anomalous_failure"
    /\ Len(recorded) = 4

(* C29: the limiter of a queue was stamped at or after the start of the
   queue's latest execution, that is, the time since its last request is at
   most the time since that start *)
C29_PacingStamps ==
    \A q \in DefaultQueues :
        q \in DOMAIN rateLimiters => rateLimiters[q] <= sinceStart[q]

(* C30: a job with a pending retry timer has exactly one, is pending, is in no
   queue and is not being executed; a failure leaves the job with at most one
   timer and in no queue; an execution of a job that has failed before starts
   only when the retry delay has elapsed since its latest failure; and a step
   puts a job into a queue at most once *)
C30_DeferredRetry ==
    /\ [](\A j \in DOMAIN jobs :
            HasRetryTimer(j, retryTimers)
                => /\ Cardinality(RetryTimersOf(j, retryTimers)) = 1
                   /\ jobs[j].status = "pending"
                   /\ ~Queued(j)
                   /\ ~ExecutingAnywhere(j))
    /\ [][\A j \in DOMAIN jobs :
            /\ FailsExecution(j)
                => /\ Cardinality(RetryTimersOf(j, retryTimers')) <= 1
                   /\ ~Queued(j)'
                   /\ ~ExecutingAnywhere(j)'
            /\ (~ExecutingAnywhere(j) /\ ExecutingAnywhere(j)' /\ jobs[j].attempts > 0)
                => sinceFail[j] >= RetryDelayMs
            /\ Occurrences(j)' <= Occurrences(j) + 1
            /\ Occurrences(j)' <= 1]_vars

C30_Witness ==
    \E j, k \in DOMAIN jobs : \E q \in DefaultQueues :
        /\ jobs[j].status = "pending"
        /\ jobs[j].attempts = 1
        /\ HasRetryTimer(j, retryTimers)
        /\ sinceFail[j] > 0
        /\ sinceFail[j] < RetryDelayMs
        /\ Executing(q, k)
        /\ jobs[k].source = jobs[j].source
        /\ processing[q]

(* the issues executeTestScenarios reports for the scenarios from i on that did
   not resolve to a success *)
RECURSIVE ScenarioIssuesFrom(_, _)
ScenarioIssuesFrom(t, i) ==
    IF i > Len(scenarios) THEN <<>>
    ELSE (IF t[i].outcome = "ok" THEN <<>>
          ELSE <<Issue(IF scenarios[i] THEN "critical" ELSE "warning",
                       "test_scenario")>>)
         \o ScenarioIssuesFrom(t, i + 1)

(* C31: a scenario resolves to a timeout only when the timeout has elapsed
   with its operation still running, and what a scenario has resolved to never
   changes afterwards; when the scenarios are collected each one that timed
   out or failed adds one issue, critical for a critical scenario and a
   warning otherwise, and the others add none; a completion of an operation,
   late or not, leaves the validation result as it is *)
C31_ScenarioTimeout ==
    [][/\ \A i \in ScenarioIds :
            /\ (tests[i].outcome # "timeout" /\ tests'[i].outcome = "timeout")
                => /\ clock >= VALIDATION_TIMEOUT
                   /\ tests[i].operation = "running"
            /\ (tests[i].outcome \in {"ok", "failed", "timeout"} /\ phase' # "infrastructure")
                => tests'[i].outcome = tests[i].outcome
       /\ (phase = "scenarios" /\ phase' = "performance")
            => /\ result'.issues = result.issues \o ScenarioIssuesFrom(tests, 1)
               /\ \A i \in ScenarioIds : tests[i].outcome # "pending"
       /\ tests' # tests /\ phase' # "infrastructure" => result' = result]_vars

C31_Witness ==
    /\ phase = "returned"
    /\ tests[1] = [operation |-> "ok", outcome |-> "timeout"]
    /\ tests[2] = [operation |-> "ok", outcome |-> "ok"]
    /\ tests[3] = [operation |-> "running", outcome |-> "timeout"]
    /\ tests[4] = [operation |-> "failed", outcome |-> "failed"]
    /\ tests[5] = [operation |-> "ok", outcome |-> "ok"]
    /\ result.issues = <<Issue("critical", "test_scenario"),
                         Issue("warning", "test_scenario"),
                         Issue("warning", "test_scenario")>>


----------------------------------------------------------------------------
(* C32: in a health report, every component that is degraded or unhealthy has
   at least one recommendation made for it, with the status it was made for,
   every recommendation is for such a component, and when the five components
   are healthy the list of recommendations is empty. *)
C32_Recommendations ==
    Checked =>
        LET made == health.recommendations
        IN  /\ \A i \in DOMAIN health.components :
                   health.components[i].status \in {"degraded", "unhealthy"} =>
                       \E k \in 1..Len(made) :
                           made[k] = Recommendation(componentNames[i],
                                                    health.components[i].status)
            /\ \A k \in 1..Len(made) :
                   StatusOf(made[k].component) = made[k].status
                       /\ made[k].status # "healthy"
            /\ (\A i \in DOMAIN health.components :
                    health.components[i].status = "healthy") => made = <<>>

C32_Witness ==
    /\ Checked
    /\ StatusOf("database") = "degraded"
    /\ StatusOf("memory") = "degraded"
    /\ StatusOf("api") = "healthy"
    /\ health.recommendations = <<Recommendation("database", "degraded"),
                                  Recommendation("memory", "degraded")>>


----------------------------------------------------------------------------
(* C37: the average a successful execution is judged against already counts
   that execution, so the first and the second successful execution of the
   batch id hand no performance_degradation alert to sendAlert and leave the
   alert manager as it was, whatever their durations *)
C37_NoEarlyDegradation ==
    [][\A c \in MonitorCallers :
        (monitor[c].pc = "running" /\ monitor'[c].operation.kind = "returned")
        => /\ data'.successCount = data.successCount + 1
           /\ data'.totalDuration
                  = data.totalDuration + recorded'[Len(recorded')].duration
           /\ data'.successCount <= 2
                  => monitor'[c].submitted = "none" /\ UNCHANGED avars]_vars

C37_Witness ==
    /\ DurationsOf(recorded) = <<0, 300>>
    /\ data.successCount = 2
    /\ data.failureCount = 0
    /\ \A c \in MonitorCallers :
           monitor[c].operation.kind = "returned" /\ monitor[c].submitted = "none"
    /\ recentAlerts = << >>


----------------------------------------------------------------------------
(* C38: a failing execution is counted in the lifetime counts of its batch id
   before the pattern is analysed: when the first monitored execution of the
   batch id fails, and whenever after counting the failure failureCount * 2
   exceeds count, a critical anomalous_failure alert is handed to sendAlert *)
C38_FirstFailureAnomalous ==
    [][\A c \in MonitorCallers :
        (monitor[c].pc = "running" /\ monitor'[c].operation.kind = "thrown")
        => /\ data'.count = data.count + 1
           /\ data'.failureCount = data.failureCount + 1
           /\ (data.count = 0 \/ data'.failureCount * 2 > data'.count)
                  => /\ monitor'[c].submitted = "anomalous_failure"
                     /\ lastSend'.type = "anomalous_failure"
                     /\ lastSend'.severity = "critical"]_vars

C38_Witness ==
    /\ Len(recorded) = 1
    /\ ~recorded[1].success
    /\ data.count = 1
    /\ data.failureCount = 1
    /\ \E c \in MonitorCallers :
           /\ monitor[c].operation.kind = "thrown"
           /\ monitor[c].submitted = "anomalous_failure"
    /\ lastSend = [type |-> "anomalous_failure", severity |-> "critical",
                   dispatched |-> TRUE]


----------------------------------------------------------------------------
(* C39: the stored timestamp of a (type, severity) key changes only when an
   alert of that key is dispatched; a suppressed alert leaves every stored
   timestamp as it was, so an alert that comes five minutes or more after the
   last dispatched alert of its key is dispatched whatever was suppressed in
   between, and one that comes earlier is suppressed whichever batch id it and
   the dispatched one carry *)
C39_SuppressedKeepsCooldown ==
    [][LET a == <<lastSend'.type, lastSend'.severity>>
           key == AlertKey(lastSend'.type, lastSend'.severity)
       IN  /\ (lastSend' # lastSend \/ alertBatch' # alertBatch) =>
                  /\ lastSend'.dispatched <=> sinceDispatch[a] >= cooldownPeriod
                  /\ ~lastSend'.dispatched =>
                         recentAlerts' = recentAlerts /\ dispatchBatch' = dispatchBatch
                  /\ lastSend'.dispatched =>
                         recentAlerts' = MapSet(recentAlerts, key, 0)
           /\ \A k \in DOMAIN recentAlerts' :
                  (k \notin DOMAIN recentAlerts \/ recentAlerts'[k] < recentAlerts[k])
                  => lastSend'.dispatched /\ k = key /\ recentAlerts'[k] = 0]_vars

C39_Witness ==
    /\ lastSend = [type |-> "anomalous_failure", severity |-> "critical",
                   dispatched |-> FALSE]
    /\ alertBatch = "dart"
    /\ dispatchBatch = "fearGreed"
    /\ \A a \in Alerts :
           sinceDispatch[a] < cooldownPeriod <=> a = <<"anomalous_failure", "critical">>
    /\ sinceDispatch[<<"anomalous_failure", "critical">>] = 2 * AlertQuantum
    /\ recentAlerts[AlertKey("anomalous_failure", "critical")] = 2 * AlertQuantum


----------------------------------------------------------------------------
(* the retry of job j was dropped: the job was attempted, is pending, and is
   in no queue, in no run and on no retry timer *)
Dropped(j) ==
    /\ j \in DOMAIN jobs
    /\ jobs[j].status = "pending"
    /\ jobs[j].attempts > 0
    /\ jobs[j].source \notin DOMAIN queues
    /\ ~Queued(j)
    /\ ~ExecutingAnywhere(j)
    /\ ~HasRetryTimer(j, retryTimers)

(* C34: when the retry timer of a job fires, the job is enqueued into the queue
   registered under job.source and every other queue, the one the job was added
   to included, stays as it is; when job.source names no registered queue no
   queue changes, and the job is pending, in no queue, in no run and on no
   timer, and stays so for ever *)
C34_RetryTarget ==
    [][\A j \in DOMAIN jobs :
          /\ (HasRetryTimer(j, retryTimers) /\ ~HasRetryTimer(j, retryTimers')) =>
                IF jobs[j].source \in DOMAIN queues
                THEN queues' = [queues EXCEPT ![jobs[j].source] = Enqueue(@, ItemOf(j))]
                ELSE queues' = queues /\ Dropped(j)'
          /\ Dropped(j) => Dropped(j)']_vars

C34_Witness ==
    /\ DOMAIN jobs = {1, 2}
    /\ jobs[1].source = "dart" /\ jobs[1].attempts = 1 /\ jobs[1].status = "pending"
    /\ jobs[1].error # NoError
    /\ queues["dart"] = <<ItemOf(1)>>
    /\ queues["krx"] = <<>>
    /\ lastCall = [queue |-> "krx", result |-> "ok"]
    /\ jobs[2].source = UnknownQueue
    /\ Dropped(2)


----------------------------------------------------------------------------
(* C35: for every registered queue the processing flag is true exactly while a
   processQueue run of the queue is in flight; the step that ends a run clears
   the flag, and finds and leaves the queue empty unless the run ends by an
   exception; the flag is set only by a step that starts a run or starts and
   ends one *)
C35_GuardConsistency ==
    /\ [](\A q \in DOMAIN queues : processing[q] <=> drains[q] # <<>>)
    /\ [][\A q \in DOMAIN queues :
            /\ (drains[q] # <<>> /\ drains'[q] = <<>>) =>
                   /\ processing[q] /\ ~processing'[q]
                   /\ (\A j \in DOMAIN jobs :
                          Executing(q, j) => jobs'[j].status # "processing")
                   /\ queues[q] = <<>> /\ queues'[q] = <<>>
            /\ (processing[q] /\ ~processing'[q]) => drains'[q] = <<>>
            /\ (~processing[q] /\ processing'[q]) =>
                   /\ queues[q] # <<>>
                   /\ Len(drains'[q]) = 1 /\ drains'[q][1].pc = "exec"]_vars

C35_Witness ==
    /\ DOMAIN jobs = {1, 2}
    /\ jobs[1].status = "completed"
    /\ jobs[2].status = "failed"
    /\ jobs[2].attempts = 2
    /\ \A q \in DOMAIN queues : ~processing[q] /\ drains[q] = <<>> /\ queues[q] = <<>>
    /\ isInitialized


----------------------------------------------------------------------------
(* the place of job j in queue q *)
PlaceOf(q, j) == CHOOSE i \in Positions(queues[q]) : queues[q][i].id = j

(* C36: a call of addJob while a run of the queue is executing a job changes
   neither the run nor any job, and puts the job behind every waiting job of
   its priority or a higher one and ahead of every waiting job of a lower
   priority; while a job waits in a queue that has a run, the run does not
   end, and the job leaves the queue only by being executed by that run *)
C36_EnqueueDuringDrain ==
    [][\A j \in DOMAIN jobs : \A q \in DOMAIN queues :
          /\ (drains[q] # <<>> /\ j \notin added /\ j \in added'
                   /\ \E i \in Positions(queues'[q]) : queues'[q][i].id = j) =>
                 /\ drains' = drains /\ jobs' = jobs /\ processing' = processing
                 /\ LET at == PlaceOf(q, j)'
                    IN  /\ RemoveAt(queues'[q], at) = queues[q]
                        /\ \A i \in 1..(at - 1) :
                               Weight(queues'[q][i]) >= Weight(queues'[q][at])
                        /\ \A i \in (at + 1)..Len(queues'[q]) :
                               Weight(queues'[q][i]) < Weight(queues'[q][at])
          /\ (drains[q] # <<>> /\ \E i \in Positions(queues[q]) : queues[q][i].id = j) =>
                 /\ Len(drains'[q]) = 1
                 /\ processing'[q]
                 /\ (\E i \in Positions(queues'[q]) : queues'[q][i].id = j)
                       \/ Executing(q, j)']_vars

C36_Witness ==
    /\ DOMAIN jobs = {1, 2, 3}
    /\ jobs[1].priority = "low" /\ jobs[1].status = "processing"
    /\ jobs[2].priority = "low" /\ jobs[3].priority = "high"
    /\ drains[DrainQueue] = <<Run("exec", 1, drains[DrainQueue][1].remaining,
                                  drains[DrainQueue][1].fate)>>
    /\ drains[DrainQueue][1].remaining > 0
    /\ queues[DrainQueue] = <<ItemOf(3), ItemOf(2)>>
    /\ added = {1, 2, 3}


----------------------------------------------------------------------------
(* C40: the success flag of a validation result is false iff the try block of
   the run threw; the result then has score 0 and health unhealthy, and its
   issue list is the one collected so far with a critical validation_system
   issue appended. A run whose try block does not throw returns success true
   whatever its issues and its health are. *)
C40_SuccessFlag ==
    /\ [](result.success <=> phase # "caught")
    /\ [](phase = "caught" =>
             /\ result.validationScore = 0
             /\ result.systemHealth = "unhealthy"
             /\ result.issues[Len(result.issues)]
                    = Issue("critical", "validation_system"))
    /\ [][phase' = "caught" /\ phase # "caught" =>
             /\ Len(result'.issues) > Len(result.issues)
             /\ SubSeq(result'.issues, 1, Len(result.issues)) = result.issues
             /\ \A i \in 1..(Len(result'.issues) - 1) :
                    result'.issues[i].component # "validation_system"]_vars
    /\ [](Finished => result.success)

C40_Witness ==
    /\ phase = "caught"
    /\ ~result.success
    /\ result.validationScore = 0
    /\ result.systemHealth = "unhealthy"
    /\ result.issues = <<Issue("warning", "data_integrity"),
                         Issue("critical", "validation_system")>>
    /\ result.recommendations # <<>>


----------------------------------------------------------------------------
(* C33: every job handed to addJob whose source names a registered queue, so
   every job added to the queue of its own source, eventually is completed or
   failed *)
C33_QueueLiveness ==
    \A j \in JobIds :
        (j \in added /\ jobs[j].source \in DOMAIN queues)
            ~> (j \in DOMAIN jobs /\ jobs[j].status \in {"completed", "failed"})

C33_Witness ==
    /\ DOMAIN jobs = {1, 2}
    /\ added = {1, 2}
    /\ jobs[1].source = "dart" /\ jobs[1].status = "failed" /\ jobs[1].attempts = 2
    /\ jobs[2].source = "dart" /\ jobs[2].status = "completed" /\ jobs[2].attempts = 2
    /\ lastCall = [queue |-> "dart", result |-> "ok"]

====
